---- MODULE Spec2Model ----
(***************************************************************************)
(* TDZ Updater (src/retired/pod-pulls/tdz.pyw): the feed synchronisation   *)
(* of do_update_tdz, the chunked transfer with retries of                  *)
(* download_one_file, the completeness classifier is_incomplete and the    *)
(* two GUI handlers on_update and on_cancel.                               *)
(*                                                                         *)
(* A session is one call of do_update_tdz, run by the thread on_update     *)
(* spawns.  The state is the output directory (fs), the feed the server    *)
(* publishes (feed) and one record of locals per session (sess).  Fields   *)
(* of a session record that the code reassigns before it reads them again  *)
(* (feed_len, outpath, total_bytes, attempt, downloaded) are reset to      *)
(* their defaults when they are dead, and a session's record is reduced    *)
(* to its summary when do_update_tdz returns or its thread dies of an      *)
(* exception that nothing catches.  The calls into tkinter the worker      *)
(* thread makes (log, update_info, update_progress, destroy) are taken to  *)
(* return; of the log only the outcome lines are kept.  The user acts on   *)
(* the program through the update button and the Cancel button; the        *)
(* output directory is changed by the program's threads only.  A step of   *)
(* a thread holds at most one access to the output directory or to the     *)
(* cancel flag that another thread's step can change the result of.        *)
(***************************************************************************)
EXTENDS Integers, Sequences, FiniteSets, TLC

(***************************************************************************)
(* Program constants.                                                      *)
(***************************************************************************)
MAX_RETRIES == 3
INITIAL_BACKOFF == 2
TOLERANCE == 1000000

\* io.DEFAULT_BUFFER_SIZE, the size of the buffer of the file object of line
\* 300 when the file system reports no block size
DEFAULT_BUFFER_SIZE == 8192

(***************************************************************************)
(* Bounds of the model.                                                    *)
(***************************************************************************)
MaxSessions == 2

Sessions == 1..MaxSessions

(***************************************************************************)
(* Strings are sequences of code points (ord(c) of each character c), so   *)
(* that safe_title and int() are computed character by character: "a" is   *)
(* <<97>>, " a?" is <<32, 97, 63>>.  The character classes are those of    *)
(* the Unicode database of Python 3.11 (version 14.0.0).                    *)
(***************************************************************************)
\* the digits zero of the decimal digits int() takes: each is followed by the
\* digits one to nine of its script
DigitZeros ==
    {48, 1632, 1776, 1984, 2406, 2534, 2662, 2790, 2918, 3046, 3174, 3302,
     3430, 3558, 3664, 3792, 3872, 4160, 4240, 6112, 6160, 6470, 6608, 6784,
     6800, 6992, 7088, 7232, 7248, 42528, 43216, 43264, 43472, 43504, 43600,
     44016, 65296, 66720, 68912, 69734, 69872, 69942, 70096, 70384, 70736,
     70864, 71248, 71360, 71472, 71904, 72016, 72784, 73040, 73120, 92768,
     92864, 93008, 120782, 120792, 120802, 120812, 120822, 123200, 123632,
     125264, 130032}

IsDigit(c) ==
    IF c < 128 THEN c \in 48..57
    ELSE \E z \in DigitZeros : z <= c /\ c <= z + 9

DigitVal(c) ==
    IF c < 128 THEN c - 48
    ELSE c - (CHOOSE z \in DigitZeros : z <= c /\ c <= z + 9)

\* str.isalnum() on ASCII: 0-9, A-Z, a-z
AsciiAlnum == (48..57) \cup (65..90) \cup (97..122)

\* str.isalnum() beyond ASCII: the characters from r[1] to r[2] of each pair
AlnumRanges ==
    {<<170, 170>>, <<178, 179>>, <<181, 181>>, <<185, 186>>, <<188, 190>>,
     <<192, 214>>, <<216, 246>>, <<248, 705>>, <<710, 721>>, <<736, 740>>,
     <<748, 748>>, <<750, 750>>, <<880, 884>>, <<886, 887>>, <<890, 893>>,
     <<895, 895>>, <<902, 902>>, <<904, 906>>, <<908, 908>>, <<910, 929>>,
     <<931, 1013>>, <<1015, 1153>>, <<1162, 1327>>, <<1329, 1366>>,
     <<1369, 1369>>, <<1376, 1416>>, <<1488, 1514>>, <<1519, 1522>>,
     <<1568, 1610>>, <<1632, 1641>>, <<1646, 1647>>, <<1649, 1747>>,
     <<1749, 1749>>, <<1765, 1766>>, <<1774, 1788>>, <<1791, 1791>>,
     <<1808, 1808>>, <<1810, 1839>>, <<1869, 1957>>, <<1969, 1969>>,
     <<1984, 2026>>, <<2036, 2037>>, <<2042, 2042>>, <<2048, 2069>>,
     <<2074, 2074>>, <<2084, 2084>>, <<2088, 2088>>, <<2112, 2136>>,
     <<2144, 2154>>, <<2160, 2183>>, <<2185, 2190>>, <<2208, 2249>>,
     <<2308, 2361>>, <<2365, 2365>>, <<2384, 2384>>, <<2392, 2401>>,
     <<2406, 2415>>, <<2417, 2432>>, <<2437, 2444>>, <<2447, 2448>>,
     <<2451, 2472>>, <<2474, 2480>>, <<2482, 2482>>, <<2486, 2489>>,
     <<2493, 2493>>, <<2510, 2510>>, <<2524, 2525>>, <<2527, 2529>>,
     <<2534, 2545>>, <<2548, 2553>>, <<2556, 2556>>, <<2565, 2570>>,
     <<2575, 2576>>, <<2579, 2600>>, <<2602, 2608>>, <<2610, 2611>>,
     <<2613, 2614>>, <<2616, 2617>>, <<2649, 2652>>, <<2654, 2654>>,
     <<2662, 2671>>, <<2674, 2676>>, <<2693, 2701>>, <<2703, 2705>>,
     <<2707, 2728>>, <<2730, 2736>>, <<2738, 2739>>, <<2741, 2745>>,
     <<2749, 2749>>, <<2768, 2768>>, <<2784, 2785>>, <<2790, 2799>>,
     <<2809, 2809>>, <<2821, 2828>>, <<2831, 2832>>, <<2835, 2856>>,
     <<2858, 2864>>, <<2866, 2867>>, <<2869, 2873>>, <<2877, 2877>>,
     <<2908, 2909>>, <<2911, 2913>>, <<2918, 2927>>, <<2929, 2935>>,
     <<2947, 2947>>, <<2949, 2954>>, <<2958, 2960>>, <<2962, 2965>>,
     <<2969, 2970>>, <<2972, 2972>>, <<2974, 2975>>, <<2979, 2980>>,
     <<2984, 2986>>, <<2990, 3001>>, <<3024, 3024>>, <<3046, 3058>>,
     <<3077, 3084>>, <<3086, 3088>>, <<3090, 3112>>, <<3114, 3129>>,
     <<3133, 3133>>, <<3160, 3162>>, <<3165, 3165>>, <<3168, 3169>>,
     <<3174, 3183>>, <<3192, 3198>>, <<3200, 3200>>, <<3205, 3212>>,
     <<3214, 3216>>, <<3218, 3240>>, <<3242, 3251>>, <<3253, 3257>>,
     <<3261, 3261>>, <<3293, 3294>>, <<3296, 3297>>, <<3302, 3311>>,
     <<3313, 3314>>, <<3332, 3340>>, <<3342, 3344>>, <<3346, 3386>>,
     <<3389, 3389>>, <<3406, 3406>>, <<3412, 3414>>, <<3416, 3425>>,
     <<3430, 3448>>, <<3450, 3455>>, <<3461, 3478>>, <<3482, 3505>>,
     <<3507, 3515>>, <<3517, 3517>>, <<3520, 3526>>, <<3558, 3567>>,
     <<3585, 3632>>, <<3634, 3635>>, <<3648, 3654>>, <<3664, 3673>>,
     <<3713, 3714>>, <<3716, 3716>>, <<3718, 3722>>, <<3724, 3747>>,
     <<3749, 3749>>, <<3751, 3760>>, <<3762, 3763>>, <<3773, 3773>>,
     <<3776, 3780>>, <<3782, 3782>>, <<3792, 3801>>, <<3804, 3807>>,
     <<3840, 3840>>, <<3872, 3891>>, <<3904, 3911>>, <<3913, 3948>>,
     <<3976, 3980>>, <<4096, 4138>>, <<4159, 4169>>, <<4176, 4181>>,
     <<4186, 4189>>, <<4193, 4193>>, <<4197, 4198>>, <<4206, 4208>>,
     <<4213, 4225>>, <<4238, 4238>>, <<4240, 4249>>, <<4256, 4293>>,
     <<4295, 4295>>, <<4301, 4301>>, <<4304, 4346>>, <<4348, 4680>>,
     <<4682, 4685>>, <<4688, 4694>>, <<4696, 4696>>, <<4698, 4701>>,
     <<4704, 4744>>, <<4746, 4749>>, <<4752, 4784>>, <<4786, 4789>>,
     <<4792, 4798>>, <<4800, 4800>>, <<4802, 4805>>, <<4808, 4822>>,
     <<4824, 4880>>, <<4882, 4885>>, <<4888, 4954>>, <<4969, 4988>>,
     <<4992, 5007>>, <<5024, 5109>>, <<5112, 5117>>, <<5121, 5740>>,
     <<5743, 5759>>, <<5761, 5786>>, <<5792, 5866>>, <<5870, 5880>>,
     <<5888, 5905>>, <<5919, 5937>>, <<5952, 5969>>, <<5984, 5996>>,
     <<5998, 6000>>, <<6016, 6067>>, <<6103, 6103>>, <<6108, 6108>>,
     <<6112, 6121>>, <<6128, 6137>>, <<6160, 6169>>, <<6176, 6264>>,
     <<6272, 6276>>, <<6279, 6312>>, <<6314, 6314>>, <<6320, 6389>>,
     <<6400, 6430>>, <<6470, 6509>>, <<6512, 6516>>, <<6528, 6571>>,
     <<6576, 6601>>, <<6608, 6618>>, <<6656, 6678>>, <<6688, 6740>>,
     <<6784, 6793>>, <<6800, 6809>>, <<6823, 6823>>, <<6917, 6963>>,
     <<6981, 6988>>, <<6992, 7001>>, <<7043, 7072>>, <<7086, 7141>>,
     <<7168, 7203>>, <<7232, 7241>>, <<7245, 7293>>, <<7296, 7304>>,
     <<7312, 7354>>, <<7357, 7359>>, <<7401, 7404>>, <<7406, 7411>>,
     <<7413, 7414>>, <<7418, 7418>>, <<7424, 7615>>, <<7680, 7957>>,
     <<7960, 7965>>, <<7968, 8005>>, <<8008, 8013>>, <<8016, 8023>>,
     <<8025, 8025>>, <<8027, 8027>>, <<8029, 8029>>, <<8031, 8061>>,
     <<8064, 8116>>, <<8118, 8124>>, <<8126, 8126>>, <<8130, 8132>>,
     <<8134, 8140>>, <<8144, 8147>>, <<8150, 8155>>, <<8160, 8172>>,
     <<8178, 8180>>, <<8182, 8188>>, <<8304, 8305>>, <<8308, 8313>>,
     <<8319, 8329>>, <<8336, 8348>>, <<8450, 8450>>, <<8455, 8455>>,
     <<8458, 8467>>, <<8469, 8469>>, <<8473, 8477>>, <<8484, 8484>>,
     <<8486, 8486>>, <<8488, 8488>>, <<8490, 8493>>, <<8495, 8505>>,
     <<8508, 8511>>, <<8517, 8521>>, <<8526, 8526>>, <<8528, 8585>>,
     <<9312, 9371>>, <<9450, 9471>>, <<10102, 10131>>, <<11264, 11492>>,
     <<11499, 11502>>, <<11506, 11507>>, <<11517, 11517>>, <<11520, 11557>>,
     <<11559, 11559>>, <<11565, 11565>>, <<11568, 11623>>, <<11631, 11631>>,
     <<11648, 11670>>, <<11680, 11686>>, <<11688, 11694>>, <<11696, 11702>>,
     <<11704, 11710>>, <<11712, 11718>>, <<11720, 11726>>, <<11728, 11734>>,
     <<11736, 11742>>, <<11823, 11823>>, <<12293, 12295>>, <<12321, 12329>>,
     <<12337, 12341>>, <<12344, 12348>>, <<12353, 12438>>, <<12445, 12447>>,
     <<12449, 12538>>, <<12540, 12543>>, <<12549, 12591>>, <<12593, 12686>>,
     <<12690, 12693>>, <<12704, 12735>>, <<12784, 12799>>, <<12832, 12841>>,
     <<12872, 12879>>, <<12881, 12895>>, <<12928, 12937>>, <<12977, 12991>>,
     <<13312, 19903>>, <<19968, 42124>>, <<42192, 42237>>, <<42240, 42508>>,
     <<42512, 42539>>, <<42560, 42606>>, <<42623, 42653>>, <<42656, 42735>>,
     <<42775, 42783>>, <<42786, 42888>>, <<42891, 42954>>, <<42960, 42961>>,
     <<42963, 42963>>, <<42965, 42969>>, <<42994, 43009>>, <<43011, 43013>>,
     <<43015, 43018>>, <<43020, 43042>>, <<43056, 43061>>, <<43072, 43123>>,
     <<43138, 43187>>, <<43216, 43225>>, <<43250, 43255>>, <<43259, 43259>>,
     <<43261, 43262>>, <<43264, 43301>>, <<43312, 43334>>, <<43360, 43388>>,
     <<43396, 43442>>, <<43471, 43481>>, <<43488, 43492>>, <<43494, 43518>>,
     <<43520, 43560>>, <<43584, 43586>>, <<43588, 43595>>, <<43600, 43609>>,
     <<43616, 43638>>, <<43642, 43642>>, <<43646, 43695>>, <<43697, 43697>>,
     <<43701, 43702>>, <<43705, 43709>>, <<43712, 43712>>, <<43714, 43714>>,
     <<43739, 43741>>, <<43744, 43754>>, <<43762, 43764>>, <<43777, 43782>>,
     <<43785, 43790>>, <<43793, 43798>>, <<43808, 43814>>, <<43816, 43822>>,
     <<43824, 43866>>, <<43868, 43881>>, <<43888, 44002>>, <<44016, 44025>>,
     <<44032, 55203>>, <<55216, 55238>>, <<55243, 55291>>, <<63744, 64109>>,
     <<64112, 64217>>, <<64256, 64262>>, <<64275, 64279>>, <<64285, 64285>>,
     <<64287, 64296>>, <<64298, 64310>>, <<64312, 64316>>, <<64318, 64318>>,
     <<64320, 64321>>, <<64323, 64324>>, <<64326, 64433>>, <<64467, 64829>>,
     <<64848, 64911>>, <<64914, 64967>>, <<65008, 65019>>, <<65136, 65140>>,
     <<65142, 65276>>, <<65296, 65305>>, <<65313, 65338>>, <<65345, 65370>>,
     <<65382, 65470>>, <<65474, 65479>>, <<65482, 65487>>, <<65490, 65495>>,
     <<65498, 65500>>, <<65536, 65547>>, <<65549, 65574>>, <<65576, 65594>>,
     <<65596, 65597>>, <<65599, 65613>>, <<65616, 65629>>, <<65664, 65786>>,
     <<65799, 65843>>, <<65856, 65912>>, <<65930, 65931>>, <<66176, 66204>>,
     <<66208, 66256>>, <<66273, 66299>>, <<66304, 66339>>, <<66349, 66378>>,
     <<66384, 66421>>, <<66432, 66461>>, <<66464, 66499>>, <<66504, 66511>>,
     <<66513, 66517>>, <<66560, 66717>>, <<66720, 66729>>, <<66736, 66771>>,
     <<66776, 66811>>, <<66816, 66855>>, <<66864, 66915>>, <<66928, 66938>>,
     <<66940, 66954>>, <<66956, 66962>>, <<66964, 66965>>, <<66967, 66977>>,
     <<66979, 66993>>, <<66995, 67001>>, <<67003, 67004>>, <<67072, 67382>>,
     <<67392, 67413>>, <<67424, 67431>>, <<67456, 67461>>, <<67463, 67504>>,
     <<67506, 67514>>, <<67584, 67589>>, <<67592, 67592>>, <<67594, 67637>>,
     <<67639, 67640>>, <<67644, 67644>>, <<67647, 67669>>, <<67672, 67702>>,
     <<67705, 67742>>, <<67751, 67759>>, <<67808, 67826>>, <<67828, 67829>>,
     <<67835, 67867>>, <<67872, 67897>>, <<67968, 68023>>, <<68028, 68047>>,
     <<68050, 68096>>, <<68112, 68115>>, <<68117, 68119>>, <<68121, 68149>>,
     <<68160, 68168>>, <<68192, 68222>>, <<68224, 68255>>, <<68288, 68295>>,
     <<68297, 68324>>, <<68331, 68335>>, <<68352, 68405>>, <<68416, 68437>>,
     <<68440, 68466>>, <<68472, 68497>>, <<68521, 68527>>, <<68608, 68680>>,
     <<68736, 68786>>, <<68800, 68850>>, <<68858, 68899>>, <<68912, 68921>>,
     <<69216, 69246>>, <<69248, 69289>>, <<69296, 69297>>, <<69376, 69415>>,
     <<69424, 69445>>, <<69457, 69460>>, <<69488, 69505>>, <<69552, 69579>>,
     <<69600, 69622>>, <<69635, 69687>>, <<69714, 69743>>, <<69745, 69746>>,
     <<69749, 69749>>, <<69763, 69807>>, <<69840, 69864>>, <<69872, 69881>>,
     <<69891, 69926>>, <<69942, 69951>>, <<69956, 69956>>, <<69959, 69959>>,
     <<69968, 70002>>, <<70006, 70006>>, <<70019, 70066>>, <<70081, 70084>>,
     <<70096, 70106>>, <<70108, 70108>>, <<70113, 70132>>, <<70144, 70161>>,
     <<70163, 70187>>, <<70272, 70278>>, <<70280, 70280>>, <<70282, 70285>>,
     <<70287, 70301>>, <<70303, 70312>>, <<70320, 70366>>, <<70384, 70393>>,
     <<70405, 70412>>, <<70415, 70416>>, <<70419, 70440>>, <<70442, 70448>>,
     <<70450, 70451>>, <<70453, 70457>>, <<70461, 70461>>, <<70480, 70480>>,
     <<70493, 70497>>, <<70656, 70708>>, <<70727, 70730>>, <<70736, 70745>>,
     <<70751, 70753>>, <<70784, 70831>>, <<70852, 70853>>, <<70855, 70855>>,
     <<70864, 70873>>, <<71040, 71086>>, <<71128, 71131>>, <<71168, 71215>>,
     <<71236, 71236>>, <<71248, 71257>>, <<71296, 71338>>, <<71352, 71352>>,
     <<71360, 71369>>, <<71424, 71450>>, <<71472, 71483>>, <<71488, 71494>>,
     <<71680, 71723>>, <<71840, 71922>>, <<71935, 71942>>, <<71945, 71945>>,
     <<71948, 71955>>, <<71957, 71958>>, <<71960, 71983>>, <<71999, 71999>>,
     <<72001, 72001>>, <<72016, 72025>>, <<72096, 72103>>, <<72106, 72144>>,
     <<72161, 72161>>, <<72163, 72163>>, <<72192, 72192>>, <<72203, 72242>>,
     <<72250, 72250>>, <<72272, 72272>>, <<72284, 72329>>, <<72349, 72349>>,
     <<72368, 72440>>, <<72704, 72712>>, <<72714, 72750>>, <<72768, 72768>>,
     <<72784, 72812>>, <<72818, 72847>>, <<72960, 72966>>, <<72968, 72969>>,
     <<72971, 73008>>, <<73030, 73030>>, <<73040, 73049>>, <<73056, 73061>>,
     <<73063, 73064>>, <<73066, 73097>>, <<73112, 73112>>, <<73120, 73129>>,
     <<73440, 73458>>, <<73648, 73648>>, <<73664, 73684>>, <<73728, 74649>>,
     <<74752, 74862>>, <<74880, 75075>>, <<77712, 77808>>, <<77824, 78894>>,
     <<82944, 83526>>, <<92160, 92728>>, <<92736, 92766>>, <<92768, 92777>>,
     <<92784, 92862>>, <<92864, 92873>>, <<92880, 92909>>, <<92928, 92975>>,
     <<92992, 92995>>, <<93008, 93017>>, <<93019, 93025>>, <<93027, 93047>>,
     <<93053, 93071>>, <<93760, 93846>>, <<93952, 94026>>, <<94032, 94032>>,
     <<94099, 94111>>, <<94176, 94177>>, <<94179, 94179>>, <<94208, 100343>>,
     <<100352, 101589>>, <<101632, 101640>>, <<110576, 110579>>,
     <<110581, 110587>>, <<110589, 110590>>, <<110592, 110882>>,
     <<110928, 110930>>, <<110948, 110951>>, <<110960, 111355>>,
     <<113664, 113770>>, <<113776, 113788>>, <<113792, 113800>>,
     <<113808, 113817>>, <<119520, 119539>>, <<119648, 119672>>,
     <<119808, 119892>>, <<119894, 119964>>, <<119966, 119967>>,
     <<119970, 119970>>, <<119973, 119974>>, <<119977, 119980>>,
     <<119982, 119993>>, <<119995, 119995>>, <<119997, 120003>>,
     <<120005, 120069>>, <<120071, 120074>>, <<120077, 120084>>,
     <<120086, 120092>>, <<120094, 120121>>, <<120123, 120126>>,
     <<120128, 120132>>, <<120134, 120134>>, <<120138, 120144>>,
     <<120146, 120485>>, <<120488, 120512>>, <<120514, 120538>>,
     <<120540, 120570>>, <<120572, 120596>>, <<120598, 120628>>,
     <<120630, 120654>>, <<120656, 120686>>, <<120688, 120712>>,
     <<120714, 120744>>, <<120746, 120770>>, <<120772, 120779>>,
     <<120782, 120831>>, <<122624, 122654>>, <<123136, 123180>>,
     <<123191, 123197>>, <<123200, 123209>>, <<123214, 123214>>,
     <<123536, 123565>>, <<123584, 123627>>, <<123632, 123641>>,
     <<124896, 124902>>, <<124904, 124907>>, <<124909, 124910>>,
     <<124912, 124926>>, <<124928, 125124>>, <<125127, 125135>>,
     <<125184, 125251>>, <<125259, 125259>>, <<125264, 125273>>,
     <<126065, 126123>>, <<126125, 126127>>, <<126129, 126132>>,
     <<126209, 126253>>, <<126255, 126269>>, <<126464, 126467>>,
     <<126469, 126495>>, <<126497, 126498>>, <<126500, 126500>>,
     <<126503, 126503>>, <<126505, 126514>>, <<126516, 126519>>,
     <<126521, 126521>>, <<126523, 126523>>, <<126530, 126530>>,
     <<126535, 126535>>, <<126537, 126537>>, <<126539, 126539>>,
     <<126541, 126543>>, <<126545, 126546>>, <<126548, 126548>>,
     <<126551, 126551>>, <<126553, 126553>>, <<126555, 126555>>,
     <<126557, 126557>>, <<126559, 126559>>, <<126561, 126562>>,
     <<126564, 126564>>, <<126567, 126570>>, <<126572, 126578>>,
     <<126580, 126583>>, <<126585, 126588>>, <<126590, 126590>>,
     <<126592, 126601>>, <<126603, 126619>>, <<126625, 126627>>,
     <<126629, 126633>>, <<126635, 126651>>, <<127232, 127244>>,
     <<130032, 130041>>, <<131072, 173791>>, <<173824, 177976>>,
     <<177984, 178205>>, <<178208, 183969>>, <<183984, 191456>>,
     <<194560, 195101>>, <<196608, 201546>>}

\* str.isalnum()
IsAlnum(c) ==
    IF c < 128 THEN c \in AsciiAlnum
    ELSE \E r \in AlnumRanges : r[1] <= c /\ c <= r[2]

\* str.isspace(): tab to carriage return, U+001C to U+001F, space, U+0085,
\* the no-break space and the spaces of Unicode
Whitespace ==
    (9..13) \cup (28..32) \cup {133, 160, 5760} \cup (8192..8202)
    \cup {8232, 8233, 8239, 8287, 12288}

\* the whitespace int() skips around a number: str.isspace() without U+001C
\* to U+001F
IntBlanks == Whitespace \ (28..31)

\* the characters safe_title keeps: c.isalnum() or c in " _-"
Kept(c) == IsAlnum(c) \/ c \in {32, 95, 45}

RECURSIVE Filter(_)
Filter(txt) ==
    IF txt = <<>> THEN <<>>
    ELSE IF Kept(Head(txt)) THEN <<Head(txt)>> \o Filter(Tail(txt))
    ELSE Filter(Tail(txt))

RECURSIVE LStrip(_, _)
LStrip(txt, blanks) ==
    IF txt # <<>> /\ Head(txt) \in blanks THEN LStrip(Tail(txt), blanks)
    ELSE txt

RECURSIVE RStrip(_, _)
RStrip(txt, blanks) ==
    IF txt # <<>> /\ txt[Len(txt)] \in blanks
    THEN RStrip(SubSeq(txt, 1, Len(txt) - 1), blanks)
    ELSE txt

\* safe_title: keep the allowed characters, then str.strip()
safe_title(txt) == RStrip(LStrip(Filter(txt), Whitespace), Whitespace)

\* os.path.join(OUTPUT_DIR, safe_title(title) + ".mp3"), without the directory
OutPath(title) == safe_title(title) \o <<46, 109, 112, 51>>

RECURSIVE DigitsValue(_)
DigitsValue(ds) ==
    IF ds = <<>> THEN 0
    ELSE 10 * DigitsValue(SubSeq(ds, 1, Len(ds) - 1)) + DigitVal(ds[Len(ds)])

\* int() ignores the whitespace around the number
StripBlanks(txt) == RStrip(LStrip(txt, IntBlanks), IntBlanks)

\* the text after an optional sign
Unsigned(txt) ==
    IF txt # <<>> /\ Head(txt) \in {45, 43} THEN Tail(txt) ELSE txt

\* the longest number int() converts: sys.get_int_max_str_digits()
INT_MAX_STR_DIGITS == 4300

\* decimal digits, with single underscores allowed between two digits, and
\* no more digits than int() converts
AllDigits(ds) ==
    /\ ds # <<>>
    /\ Cardinality({ i \in 1..Len(ds) : IsDigit(ds[i]) }) <= INT_MAX_STR_DIGITS
    /\ \A i \in 1..Len(ds) :
           \/ IsDigit(ds[i])
           \/ /\ ds[i] = 95
              /\ 1 < i
              /\ i < Len(ds)
              /\ IsDigit(ds[i - 1])
              /\ IsDigit(ds[i + 1])

RECURSIVE OnlyDigits(_)
OnlyDigits(ds) ==
    IF ds = <<>> THEN <<>>
    ELSE IF IsDigit(Head(ds)) THEN <<Head(ds)>> \o OnlyDigits(Tail(ds))
    ELSE OnlyDigits(Tail(ds))

\* whether int(txt) returns rather than raises ValueError
IntParses(txt) == AllDigits(Unsigned(StripBlanks(txt)))

\* int(txt) for a text that parses
IntValue(txt) ==
    LET t == StripBlanks(txt)
        v == CHOOSE n \in { DigitsValue(ds) :
                               ds \in {OnlyDigits(Unsigned(t))} } : TRUE
    IN  IF Head(t) = 45 THEN 0 - v ELSE v

(***************************************************************************)
(* The classifier.  A file is a record: whether it exists, its length in   *)
(* bytes, and a history bit (partial) that is set when download_one_file   *)
(* opens the file for writing and cleared only when that call returns      *)
(* True.  The code never reads the history bit.                            *)
(***************************************************************************)
NoFile == [exists |-> FALSE, size |-> 0, partial |-> FALSE]

File(n, p) == [exists |-> TRUE, size |-> n, partial |-> p]

\* is_incomplete with the tolerance forgotten
is_incomplete_NoTolerance(file, remote_size) ==
    IF ~file.exists THEN TRUE
    ELSE IF remote_size <= 0 THEN FALSE
    ELSE file.size < remote_size

\* is_incomplete with <= for <
is_incomplete_OffByOne(file, remote_size) ==
    IF ~file.exists THEN TRUE
    ELSE IF remote_size <= 0 THEN FALSE
    ELSE (file.size + TOLERANCE) <= remote_size

\* is_incomplete that takes a file for damaged when the remote size is
\* unknown
is_incomplete_UnknownIsDamaged(file, remote_size) ==
    IF ~file.exists THEN TRUE
    ELSE IF remote_size <= 0 THEN TRUE
    ELSE (file.size + TOLERANCE) < remote_size

is_incomplete(file, remote_size) ==
    IF ~file.exists THEN TRUE
    ELSE IF remote_size <= 0 THEN FALSE
    ELSE (file.size + TOLERANCE) < remote_size

(***************************************************************************)
(* The network.  A URL serves a body, given as the lengths of the chunks   *)
(* iter_content(chunk_size=8192) yields (any lengths up to 8192, as the    *)
(* server sends them), and answers HEAD with headers.  The bodies here are *)
(* of a few bytes: the transfer depends on a chunk's length only through   *)
(* how the chunk compares with the buffer of the file object, and both     *)
(* cases occur.  iter_content yields no empty chunk, so the test of line   *)
(* 304 holds for every chunk of these bodies.                              *)
(***************************************************************************)
NoText == [has |-> FALSE, txt |-> <<>>]

Text(t) == [has |-> TRUE, txt |-> t]

Urls == {"u1", "u2"}

\* u1 serves 5 bytes in two chunks, of 4 bytes and of 1 byte, and its HEAD
\* reports a Content-Length of 2000000; u2 serves 2 bytes in one chunk and
\* its HEAD carries no Content-Length
Body(url) ==
    IF url = "u1" THEN <<4, 1>> ELSE <<2>>

ContentLength(url) ==
    IF url = "u1" THEN Text(<<50, 48, 48, 48, 48, 48, 48>>) ELSE NoText

RECURSIVE Sum(_)
Sum(seq) == IF seq = <<>> THEN 0 ELSE Head(seq) + Sum(Tail(seq))

\* the bytes a complete response of the URL carries
Served(url) == Sum(Body(url))

\* what requests.head can do: raise, answer with an error status, answer
\* without a Content-Length, or answer with the server's Content-Length
HeadOutcomes == {"raise", "status", "nolen", "len"}

\* total_bytes after lines 258-265
HeadTotal(url, outcome) ==
    IF outcome = "len" /\ ContentLength(url).has
                       /\ IntParses(ContentLength(url).txt)
    THEN IntValue(ContentLength(url).txt)
    ELSE 0

(***************************************************************************)
(* The feed: entries with a title and a list of enclosures.                *)
(***************************************************************************)
Enclosure(url, len) == [href |-> url, length |-> len]

Entry(title, encs) == [title |-> title, enclosures |-> encs]

\* the titles "a", " a?" and "b"
Titles == {<<97>>, <<32, 97, 63>>, <<98>>}

\* "a": declares 1000002, the 2 bytes its URL serves plus TOLERANCE
EpA == Entry(<<97>>, <<Enclosure("u2", Text(<<49, 48, 48, 48, 48, 48, 50>>))>>)

\* " a?": the same output path as "a"; declares 1000003, more than TOLERANCE
\* above what its URL serves
EpQ ==
    Entry(<<32, 97, 63>>,
          <<Enclosure("u2", Text(<<49, 48, 48, 48, 48, 48, 51>>))>>)

\* "b": no length attribute
EpB == Entry(<<98>>, <<Enclosure("u2", NoText)>>)

\* "c": an entry without enclosure
Dropped == Entry(<<99>>, <<>>)

Paths == { OutPath(t) : t \in Titles }

\* the output directory with a.mp3 and b.mp3 as given
Disk(a, b) == [p \in Paths |-> IF p = OutPath(<<97>>) THEN a ELSE b]

\* a file of 0 bytes, left in the output directory before the first session
Empty == [exists |-> TRUE, size |-> 0, partial |-> FALSE]

\* the file a complete download of the URL leaves
Complete(url) == [exists |-> TRUE, size |-> Served(url), partial |-> FALSE]

\* feed_len read leniently: the digits of the attribute, whatever else it
\* holds
FeedLen_DigitsOnly(enclosure) ==
    LET txt == IF enclosure.length.has THEN enclosure.length.txt ELSE <<48>>
    IN  DigitsValue(OnlyDigits(txt))

\* feed_len after lines 240-244: int(enclosure.get("length", "0")), 0 when
\* int() raises
FeedLen(enclosure) ==
    LET txt == IF enclosure.length.has THEN enclosure.length.txt ELSE <<48>>
    IN  IF IntParses(txt) THEN IntValue(txt) ELSE 0

(***************************************************************************)
(* State.                                                                  *)
(*   feed  the entries feedparser.parse returns for TDZ_FEED_URL           *)
(*   blksize  the size of the buffer open(outpath, "wb") gives a file      *)
(*         object: the block size the file system of OUTPUT_DIR reports    *)
(*         when it is above 1, else io.DEFAULT_BUFFER_SIZE                 *)
(*   fs    the files of OUTPUT_DIR, by path                                *)
(*   sess  per session, the locals of do_update_tdz and download_one_file, *)
(*         the cancel flag of its progress window, and history fields:     *)
(*         why (how the last transfer returned), sleeps (the delays slept  *)
(*         in the current transfer), gets (its GET requests), began /      *)
(*         removed / fetched (the entries whose iteration began, whose     *)
(*         file was removed, for which a GET was sent), log (the outcome   *)
(*         lines written with gui_app.log), clean and after_clean (the     *)
(*         summary kept of a returned session), reported (the byte count   *)
(*         of the last call of update_progress in the current transfer,    *)
(*         -1 before the first call), oserr (where the attempt met an      *)
(*         OSError: "open", "write" or "none"), grab (the session's progress window holds the         *)
(*         application's grab) and exit (where do_update_tdz returned).    *)
(*         While the session holds the file object of line 300: buffered  *)
(*         (the bytes written to it that have not reached the file) and    *)
(*         unlinked (the file it writes to has been removed from the       *)
(*         directory).                                                     *)
(*         The summary of a returned session is dropped when the next      *)
(*         session starts.                                                 *)
(*   call  one call of is_incomplete on its own: the file, the remote      *)
(*         size, whether the call has returned, and its result             *)
(***************************************************************************)
VARIABLES feed, blksize, fs, sess, call

vars == <<feed, blksize, fs, sess, call>>

Idle ==
    [pc |-> "idle", idx |-> 0, cancelled |-> FALSE, feed_len |-> 0,
     outpath |-> <<>>, mp3_url |-> "", total_bytes |-> 0, attempt |-> 0,
     downloaded |-> 0, pos |-> 0, success |-> FALSE, why |-> "none",
     sleeps |-> <<>>, gets |-> 0, began |-> {}, removed |-> {},
     fetched |-> {}, log |-> <<>>, clean |-> FALSE, after_clean |-> FALSE,
     reported |-> -1, oserr |-> "none", grab |-> FALSE, exit |-> "none",
     buffered |-> 0, unlinked |-> FALSE]

NoCall == [file |-> NoFile, remote_size |-> 0, done |-> FALSE, result |-> FALSE]

\* the feeds and output directories Spec starts from:
\*   "a" over a.mp3 of 0 bytes, which is damaged for it;
\*   " a?" over a.mp3 of 0 bytes: whatever is served is damaged for it;
\*   " a?", then "b" over b.mp3 of 0 bytes, which is skipped;
\*   "a" over a complete a.mp3, then " a?", which maps to the same file;
\*   "b" over an empty directory;
\*   a feed without entries
Starts ==
    { << <<EpA>>, Disk(Empty, NoFile) >>,
      << <<EpQ>>, Disk(Empty, NoFile) >>,
      << <<EpQ, EpB>>, Disk(Empty, Empty) >>,
      << <<EpA, EpQ>>, Disk(Complete("u2"), NoFile) >>,
      << <<EpB>>, Disk(NoFile, NoFile) >>,
      << <<>>, Disk(Empty, NoFile) >> }

Init ==
    /\ \E start \in Starts :
          /\ feed = start[1]
          /\ fs = start[2]
    /\ blksize = DEFAULT_BUFFER_SIZE
    /\ sess = [s \in Sessions |-> Idle]
    /\ call = NoCall

\* the locals of one iteration of the episode loop, dead at its end
NextEpisode(r) ==
    [r EXCEPT !.pc = "loop", !.idx = r.idx + 1, !.feed_len = 0,
              !.outpath = <<>>, !.mp3_url = "", !.total_bytes = 0,
              !.attempt = 0, !.downloaded = 0, !.pos = 0, !.success = FALSE,
              !.why = "none", !.sleeps = <<>>, !.gets = 0, !.reported = -1,
              !.oserr = "none"]

Logged(r, kind) == [r EXCEPT !.log = Append(r.log, <<kind, r.idx>>)]

\* the progress window of a session exists from its creation (line 226) to
\* its destruction (line 282); the window of a thread that died in the loop
\* is never destroyed
HasWindow(r) ==
    r.pc \in {"loop", "classify", "getsize", "remove", "unlink", "head", "get",
              "stream", "write", "sleep", "ret", "finish", "dead"}

(***************************************************************************)
(* TDZGUI.on_update: spawn a thread that runs do_update_tdz.  Sessions are *)
(* numbered in the order they are started.                                 *)
(***************************************************************************)
Forgotten(r) == [Idle EXCEPT !.pc = "done", !.cancelled = r.cancelled]

on_update(s) ==
    /\ sess[s].pc = "idle"
    /\ \A t \in Sessions : t < s => sess[t].pc # "idle"
    /\ sess' = [t \in Sessions |->
                  IF t = s
                  THEN [Idle EXCEPT !.pc = "ensure_dir",
                                    !.after_clean = (s > 1 /\ sess[s - 1].clean)]
                  ELSE IF sess[t].pc = "done" THEN Forgotten(sess[t])
                  ELSE sess[t]]
    /\ UNCHANGED <<feed, blksize, fs, call>>

\* line 93, grab_set: while a progress window holds the grab, the events of
\* the mouse and the keyboard go to that window only; the grab passes to the
\* window that called grab_set last and ends when that window is destroyed
Responds(s) == \A t \in Sessions \ {s} : ~sess[t].grab

\* the buttons of the main window respond when no progress window holds the
\* grab
MainResponds == \A t \in Sessions : ~sess[t].grab

\* DownloadProgress.on_cancel, the command of the window's Cancel button
on_cancel(s) ==
    /\ HasWindow(sess[s])
    /\ Responds(s)
    /\ ~sess[s].cancelled
    /\ sess' = [sess EXCEPT ![s].cancelled = TRUE]
    /\ UNCHANGED <<feed, blksize, fs, call>>

(***************************************************************************)
(* do_update_tdz, step by step.                                            *)
(***************************************************************************)
\* the summary of a session whose do_update_tdz has returned
Returned(r) ==
    [Idle EXCEPT !.pc = "done",
                 !.cancelled = r.cancelled,
                 !.clean = (~r.cancelled /\ r.pc = "finish"
                            /\ \A i \in 1..Len(r.log) : r.log[i][1] # "failed"),
                 !.exit = IF r.pc = "ensure_dir" THEN "no_dir"
                          ELSE IF r.pc = "parse" THEN "no_entries"
                          ELSE "finished"]

\* the summary of a session whose thread ended with an exception that
\* do_update_tdz does not catch: line 282 is not reached, the progress window
\* stays, with its Cancel button and the grab it holds; the lines it logged
\* stay in the log
Died(r) ==
    [Idle EXCEPT !.pc = "dead", !.cancelled = r.cancelled, !.grab = r.grab,
                 !.exit = "died", !.began = r.began, !.removed = r.removed,
                 !.fetched = r.fetched, !.log = r.log]

\* lines 208-213: ensure_output_dir raises when os.makedirs fails
ensure_output_dir(s) ==
    /\ sess[s].pc = "ensure_dir"
    /\ \E created \in BOOLEAN :
         sess' = [sess EXCEPT ![s] =
                    IF created THEN [sess[s] EXCEPT !.pc = "parse"]
                    ELSE Returned(sess[s])]
    /\ UNCHANGED <<feed, blksize, fs, call>>

\* lines 215-227 with the progress window created before the test of line
\* 217, so that the return of line 219 leaves it (and its grab) behind
ParseFeed_WindowLeft(s) ==
    /\ sess[s].pc = "parse"
    /\ \E reachable \in BOOLEAN :
         LET episodes == IF reachable THEN feed ELSE <<>>
         IN  sess' = [t \in Sessions |->
                        IF t # s THEN [sess[t] EXCEPT !.grab = FALSE]
                        ELSE IF episodes = <<>>
                        THEN [Returned(sess[s]) EXCEPT !.grab = TRUE]
                        ELSE [sess[s] EXCEPT !.pc = "loop", !.idx = 1,
                                             !.cancelled = FALSE,
                                             !.grab = TRUE]]
    /\ UNCHANGED <<feed, blksize, fs, call>>

\* lines 215-227 with the cancel flag kept by the class, not by the window:
\* the new window finds the flag as the window before it left it
ParseFeed_SharedFlag(s) ==
    /\ sess[s].pc = "parse"
    /\ \E reachable \in BOOLEAN :
         LET episodes == IF reachable THEN feed ELSE <<>>
         IN  sess' = IF episodes = <<>>
                     THEN [sess EXCEPT ![s] = Returned(sess[s])]
                     ELSE [t \in Sessions |->
                             IF t = s
                             THEN [sess[s] EXCEPT
                                     !.pc = "loop", !.idx = 1,
                                     !.cancelled =
                                         (s > 1 /\ sess[s - 1].cancelled),
                                     !.grab = TRUE]
                             ELSE [sess[t] EXCEPT !.grab = FALSE]]
    /\ UNCHANGED <<feed, blksize, fs, call>>

\* lines 215-227: parse the feed, return when it has no entries, else create
\* the progress window
ParseFeed(s) ==
    /\ sess[s].pc = "parse"
    /\ \E reachable \in BOOLEAN :
         LET episodes == IF reachable THEN feed ELSE <<>>
         IN  sess' = IF episodes = <<>>
                     THEN [sess EXCEPT ![s] = Returned(sess[s])]
                     ELSE [t \in Sessions |->
                             IF t = s
                             THEN [sess[s] EXCEPT !.pc = "loop", !.idx = 1,
                                                  !.cancelled = FALSE,
                                                  !.grab = TRUE]
                             ELSE [sess[t] EXCEPT !.grab = FALSE]]
    /\ UNCHANGED <<feed, blksize, fs, call>>

\* the loop top with "break" for the "continue" of line 237
LoopTop_DropIsFatal(s) ==
    LET r == sess[s]
    IN  /\ r.pc = "loop"
        /\ sess' = [sess EXCEPT ![s] =
             IF r.idx > Len(feed) THEN [r EXCEPT !.pc = "finish"]
             ELSE IF r.cancelled
             THEN [Logged(r, "cancelled") EXCEPT !.pc = "finish"]
             ELSE LET ep == feed[r.idx]
                      b  == [r EXCEPT !.began = r.began \cup {r.idx}]
                  IN  IF ep.enclosures = <<>>
                      THEN [Logged(b, "no_enclosures") EXCEPT !.pc = "finish"]
                      ELSE [b EXCEPT !.pc = "classify",
                                     !.feed_len = FeedLen(ep.enclosures[1]),
                                     !.mp3_url = ep.enclosures[1].href,
                                     !.outpath = OutPath(ep.title)]]
        /\ UNCHANGED <<feed, blksize, fs, call>>

\* the loop top without the test of lines 230-232
LoopTop_NoCancelCheck(s) ==
    LET r == sess[s]
    IN  /\ r.pc = "loop"
        /\ sess' = [sess EXCEPT ![s] =
             IF r.idx > Len(feed) THEN [r EXCEPT !.pc = "finish"]
             ELSE LET ep == feed[r.idx]
                      b  == [r EXCEPT !.began = r.began \cup {r.idx}]
                  IN  IF ep.enclosures = <<>>
                      THEN NextEpisode(Logged(b, "no_enclosures"))
                      ELSE [b EXCEPT !.pc = "classify",
                                     !.feed_len = FeedLen(ep.enclosures[1]),
                                     !.mp3_url = ep.enclosures[1].href,
                                     !.outpath = OutPath(ep.title)]]
        /\ UNCHANGED <<feed, blksize, fs, call>>

\* lines 229-248: top of the episode loop
LoopTop(s) ==
    LET r == sess[s]
    IN  /\ r.pc = "loop"
        /\ sess' = [sess EXCEPT ![s] =
             IF r.idx > Len(feed) THEN [r EXCEPT !.pc = "finish"]
             ELSE IF r.cancelled
             THEN [Logged(r, "cancelled") EXCEPT !.pc = "finish"]
             ELSE LET ep == feed[r.idx]
                      b  == [r EXCEPT !.began = r.began \cup {r.idx}]
                  IN  IF ep.enclosures = <<>>
                      THEN NextEpisode(Logged(b, "no_enclosures"))
                      ELSE [b EXCEPT !.pc = "classify",
                                     !.feed_len = FeedLen(ep.enclosures[1]),
                                     !.mp3_url = ep.enclosures[1].href,
                                     !.outpath = OutPath(ep.title)]]
        /\ UNCHANGED <<feed, blksize, fs, call>>

\* the condition of line 251
AlreadyHave(file, feed_len) ==
    file.exists /\ ~is_incomplete(file, feed_len)

\* lines 65-68: is_incomplete goes on to os.path.getsize
ReachesGetSize(file, remote_size) == file.exists /\ remote_size > 0

\* the session skips the episode as already present (lines 252-253)
Skip(r) == NextEpisode(Logged(r, "already_have"))

\* lines 251 and 65-68: the two calls of os.path.exists, which another
\* thread can only make differ by a step that, taken before line 251, leads
\* to the same outcome; with the file there and a declared size the call of
\* is_incomplete goes on to line 69
Classify(s) ==
    LET r == sess[s]
    IN  /\ r.pc = "classify"
        /\ sess' = [sess EXCEPT ![s] =
             IF ReachesGetSize(fs[r.outpath], r.feed_len)
             THEN [r EXCEPT !.pc = "getsize"]
             ELSE IF AlreadyHave(fs[r.outpath], r.feed_len) THEN Skip(r)
             ELSE [r EXCEPT !.pc = "remove"]]
        /\ UNCHANGED <<feed, blksize, fs, call>>

\* lines 69-72 and 251-253 with a classifier that removes the file it finds
\* incomplete
GetSize_RemovesIncomplete(s) ==
    LET r == sess[s]
    IN  /\ r.pc = "getsize"
        /\ sess' = [sess EXCEPT ![s] =
             IF ~fs[r.outpath].exists THEN Died(r)
             ELSE IF AlreadyHave(fs[r.outpath], r.feed_len) THEN Skip(r)
             ELSE [r EXCEPT !.pc = "remove"]]
        /\ fs' = IF AlreadyHave(fs[r.outpath], r.feed_len) THEN fs
                 ELSE [fs EXCEPT ![r.outpath] = NoFile]
        /\ UNCHANGED <<feed, blksize, call>>

\* lines 69-72 and 251-253: os.path.getsize raises FileNotFoundError when
\* the file has gone since line 65, and nothing catches it; otherwise the
\* size read now decides
GetSize(s) ==
    LET r == sess[s]
    IN  /\ r.pc = "getsize"
        /\ sess' = [sess EXCEPT ![s] =
             IF ~fs[r.outpath].exists THEN Died(r)
             ELSE IF AlreadyHave(fs[r.outpath], r.feed_len) THEN Skip(r)
             ELSE [r EXCEPT !.pc = "remove"]]
        /\ UNCHANGED <<feed, blksize, fs, call>>

\* line 254
RemoveStale(s) ==
    LET r == sess[s]
    IN  /\ r.pc = "remove"
        /\ sess' = [sess EXCEPT ![s].pc =
                      IF fs[r.outpath].exists THEN "unlink" ELSE "head"]
        /\ UNCHANGED <<feed, blksize, fs, call>>

\* the session holds a file object (line 300) on the file now at path p
Holds(r, p) == r.pc \in {"stream", "write"} /\ r.outpath = p /\ ~r.unlinked

\* what os.remove does with a file that is there: it unlinks the file, or
\* raises PermissionError (the file or the directory is read-only, or a
\* file object or another program holds the file open on Windows)
RemoveOutcomes == {"unlinks", "raises"}

\* line 255: os.remove raises FileNotFoundError when the file has gone since
\* line 254, or PermissionError, and nothing catches it; otherwise the file
\* leaves the directory, and a file object open on it keeps writing to a file
\* that has no path
Unlink(s) ==
    LET r == sess[s]
    IN  /\ r.pc = "unlink"
        /\ \E how \in RemoveOutcomes :
             IF ~fs[r.outpath].exists \/ how = "raises"
             THEN /\ sess' = [sess EXCEPT ![s] = Died(r)]
                  /\ fs' = fs
             ELSE /\ sess' = [t \in Sessions |->
                                IF t = s
                                THEN [r EXCEPT !.pc = "head",
                                               !.removed = r.removed \cup {r.idx}]
                                ELSE IF Holds(sess[t], r.outpath)
                                THEN [sess[t] EXCEPT !.unlinked = TRUE]
                                ELSE sess[t]]
                  /\ fs' = [fs EXCEPT ![r.outpath] = NoFile]
        /\ UNCHANGED <<feed, blksize, call>>

\* lines 257-275: HEAD for the total size, then the call of
\* download_one_file
HeadRequest(s) ==
    LET r == sess[s]
    IN  /\ r.pc = "head"
        /\ \E outcome \in HeadOutcomes :
             sess' = [sess EXCEPT ![s] =
                        [r EXCEPT !.pc = "get",
                                  !.total_bytes = HeadTotal(r.mp3_url, outcome),
                                  !.attempt = 1, !.why = "none",
                                  !.sleeps = <<>>, !.gets = 0]]
        /\ UNCHANGED <<feed, blksize, fs, call>>

(***************************************************************************)
(* download_one_file, step by step.                                        *)
(***************************************************************************)
RECURSIVE Pow2(_)
Pow2(n) == IF n <= 0 THEN 1 ELSE 2 * Pow2(n - 1)

\* line 312: the delay slept after the failed attempt
Backoff(attempt) == INITIAL_BACKOFF * Pow2(attempt - 1)

\* the loop of line 294 running one attempt too many
HasNextAttempt_OneMore(attempt) == attempt <= MAX_RETRIES

\* line 294: range(1, MAX_RETRIES+1) has another attempt
HasNextAttempt(attempt) == attempt < MAX_RETRIES

\* the except clause sleeping only when an attempt is left
Caught_NoSleepAfterLast(r) ==
    IF r.attempt < MAX_RETRIES
    THEN [r EXCEPT !.pc = "sleep",
                   !.sleeps = Append(r.sleeps, Backoff(r.attempt))]
    ELSE [r EXCEPT !.pc = "ret", !.success = FALSE, !.why = "exhausted"]

\* lines 310-312: the except clause, entered from anywhere in the try block
Caught(r) ==
    [r EXCEPT !.pc = "sleep", !.sleeps = Append(r.sleeps, Backoff(r.attempt))]

\* the file after open(outpath, "wb")
Truncated == File(0, TRUE)

\* f.write of n bytes (io.BufferedWriter) copies the chunk to the buffer when
\* it fits, and calls os.write when it does not
WritesThrough(r, n) == n > blksize - r.buffered

\* the bytes that can be in the buffer after f.write of n bytes returned: the
\* chunk joins the buffer when it fits; otherwise the buffer is written out,
\* and of a chunk larger than the buffer os.write is given the rest until
\* the rest fits the buffer; os.write takes any number of the bytes it is
\* given, one at least
Pending(r, n) ==
    IF ~WritesThrough(r, n) THEN {r.buffered + n}
    ELSE IF n > blksize THEN { m \in 0..blksize : m < n }
    ELSE {n}

\* the file after the bytes up to offset `upto` were written to it
Written(file, upto) ==
    IF ~file.exists THEN file
    ELSE [file EXCEPT !.partial = TRUE,
                      !.size = IF upto > file.size THEN upto ELSE file.size]

\* the file at the session's path after its file object has written out the
\* bytes up to offset `upto`: as before when those bytes were written out
\* already, and when the file written to has left the directory
WrittenOut(r, file, upto) ==
    IF r.unlinked \/ upto <= r.downloaded - r.buffered THEN file
    ELSE Written(file, upto)

\* the "with" of line 300 is left: the file object writes out its buffer and
\* is closed
FileClosed(r, file) == WrittenOut(r, file, r.downloaded)

\* the offsets writing out the buffer can stop at when os.write raises:
\* any offset with a byte of the buffer left
Unflushed(r) == (r.downloaded - r.buffered)..(r.downloaded - 1)

\* the offsets the file written to can end at when f.write of n bytes
\* raises: os.write raises while the buffer is written out, and closing the
\* file writes out more of the buffer, all of it or not; or the buffer is
\* out and os.write raises for the chunk, which is larger than the buffer,
\* after it took any part of the chunk that leaves more than the buffer
\* holds.  The bytes of the chunk that reached the file are not counted in
\* downloaded
FailedWrite(r, n) ==
    (IF r.buffered > 0 THEN (r.downloaded - r.buffered)..r.downloaded ELSE {})
    \cup (IF n > blksize
          THEN r.downloaded..(r.downloaded + n - blksize - 1) ELSE {})

Closed(r) == [r EXCEPT !.buffered = 0, !.unlinked = FALSE]

\* the "with" of line 300 is left and f.close() raises while it writes out
\* the buffer: the except clause of line 310 catches the exception
CloseRaises(s) ==
    LET r == sess[s]
    IN  /\ r.buffered > 0
        /\ sess' = [sess EXCEPT ![s] = Caught(Closed(r))]
        /\ \E e \in Unflushed(r) :
              fs' = [fs EXCEPT ![r.outpath] = WrittenOut(r, fs[r.outpath], e)]

\* line 308: prog_win.update_progress(downloaded, total_size, elapsed)
update_progress(r, downloaded) ==
    [r EXCEPT !.reported = downloaded]

\* lines 295-300: a new attempt: GET, raise_for_status, open for writing;
\* requests.get or raise_for_status raises, or open raises, or the file is
\* opened and truncated
Get(s) ==
    LET r == [sess[s] EXCEPT !.gets = sess[s].gets + 1, !.downloaded = 0,
                             !.pos = 0, !.oserr = "none",
                             !.fetched = sess[s].fetched \cup {sess[s].idx}]
    IN  /\ sess[s].pc = "get"
        /\ \/ /\ sess' = [sess EXCEPT ![s] = Caught(r)]
              /\ fs' = fs
           \/ /\ sess' = [sess EXCEPT ![s] = Caught([r EXCEPT !.oserr = "open"])]
              /\ fs' = fs
           \/ /\ sess' = [sess EXCEPT ![s] = [r EXCEPT !.pc = "stream"]]
              /\ fs' = [fs EXCEPT ![r.outpath] = Truncated]
        /\ UNCHANGED <<feed, blksize, call>>

\* lines 301-303: the response delivers a chunk and the cancel flag is read;
\* "return False" closes the file, and returns unless the close raises
Chunk(s) ==
    LET r == sess[s]
    IN  /\ r.pc = "stream"
        /\ r.pos < Len(Body(r.mp3_url))
        /\ IF r.cancelled
           THEN \/ /\ sess' = [sess EXCEPT ![s] =
                                 [Closed(r) EXCEPT !.pc = "ret",
                                                   !.success = FALSE,
                                                   !.why = "cancelled"]]
                   /\ fs' = [fs EXCEPT ![r.outpath] =
                               FileClosed(r, fs[r.outpath])]
                \/ CloseRaises(s)
           ELSE /\ sess' = [sess EXCEPT ![s].pc = "write"]
                /\ fs' = fs
        /\ UNCHANGED <<feed, blksize, call>>

\* lines 304-308: the chunk, unless empty, is written and counted, and the
\* progress window updated
Write(s) ==
    LET r == sess[s]
        n == Body(r.mp3_url)[r.pos + 1]
    IN  /\ r.pc = "write"
        /\ \E m \in (IF n > 0 THEN Pending(r, n) ELSE {r.buffered}) :
              /\ sess' = [sess EXCEPT ![s] =
                            update_progress(
                                [r EXCEPT !.pc = "stream", !.pos = r.pos + 1,
                                          !.downloaded = r.downloaded + n,
                                          !.buffered = m],
                                r.downloaded + n)]
              /\ fs' = [fs EXCEPT ![r.outpath] =
                          WrittenOut(r, fs[r.outpath], r.downloaded + n - m)]
        /\ UNCHANGED <<feed, blksize, call>>

\* the attempt breaks, after any number of chunks: iter_content raises; or
\* f.write raises, in os.write, for a chunk that passed the cancel check.
\* The file is closed as the "with" of line 300 is left, and of the buffer
\* as much reaches the file as os.write takes
StreamError(s) ==
    LET r == sess[s]
    IN  /\ \/ /\ r.pc = "stream"
              /\ sess' = [sess EXCEPT ![s] = Caught(Closed(r))]
              /\ \E e \in (r.downloaded - r.buffered)..r.downloaded :
                    fs' = [fs EXCEPT ![r.outpath] =
                             WrittenOut(r, fs[r.outpath], e)]
           \/ /\ r.pc = "write"
              /\ Body(r.mp3_url)[r.pos + 1] > 0
              /\ WritesThrough(r, Body(r.mp3_url)[r.pos + 1])
              /\ sess' = [sess EXCEPT ![s] =
                            Caught([Closed(r) EXCEPT !.oserr = "write"])]
              /\ \E e \in FailedWrite(r, Body(r.mp3_url)[r.pos + 1]) :
                    fs' = [fs EXCEPT ![r.outpath] =
                             WrittenOut(r, fs[r.outpath], e)]
        /\ UNCHANGED <<feed, blksize, call>>

\* the response is exhausted and the file is closed: line 309, return True,
\* unless the close raises
StreamEnd(s) ==
    LET r == sess[s]
    IN  /\ r.pc = "stream"
        /\ r.pos = Len(Body(r.mp3_url))
        /\ \/ /\ sess' = [sess EXCEPT ![s] =
                            [Closed(r) EXCEPT !.pc = "ret", !.success = TRUE,
                                              !.why = "success"]]
              /\ fs' = [fs EXCEPT ![r.outpath] =
                          IF r.unlinked THEN fs[r.outpath]
                          ELSE [FileClosed(r, fs[r.outpath])
                                  EXCEPT !.partial = FALSE]]
           \/ CloseRaises(s)
        /\ UNCHANGED <<feed, blksize, call>>

\* line 312 ends, with the cancel flag read before the next attempt
WakeUp_ChecksCancel(s) ==
    LET r == sess[s]
    IN  /\ r.pc = "sleep"
        /\ sess' = [sess EXCEPT ![s] =
                      IF r.cancelled
                      THEN [r EXCEPT !.pc = "ret", !.success = FALSE,
                                     !.why = "cancelled"]
                      ELSE IF HasNextAttempt(r.attempt)
                      THEN [r EXCEPT !.pc = "get", !.attempt = r.attempt + 1]
                      ELSE [r EXCEPT !.pc = "ret", !.success = FALSE,
                                     !.why = "exhausted"]]
        /\ UNCHANGED <<feed, blksize, fs, call>>

\* line 312 ends: the sleep is over; next attempt, or line 313: return False
WakeUp(s) ==
    LET r == sess[s]
    IN  /\ r.pc = "sleep"
        /\ sess' = [sess EXCEPT ![s] =
                      IF HasNextAttempt(r.attempt)
                      THEN [r EXCEPT !.pc = "get", !.attempt = r.attempt + 1]
                      ELSE [r EXCEPT !.pc = "ret", !.success = FALSE,
                                     !.why = "exhausted"]]
        /\ UNCHANGED <<feed, blksize, fs, call>>

\* lines 276-280 without the "break" of line 280
Record_NoBreak(s) ==
    LET r == sess[s]
    IN  /\ r.pc = "ret"
        /\ sess' = [sess EXCEPT ![s] =
                      IF r.success THEN NextEpisode(Logged(r, "ok"))
                      ELSE NextEpisode(Logged(r, "failed"))]
        /\ UNCHANGED <<feed, blksize, fs, call>>

\* lines 276-280: log the result; a False result leaves the loop
Record(s) ==
    LET r == sess[s]
    IN  /\ r.pc = "ret"
        /\ sess' = [sess EXCEPT ![s] =
                      IF r.success THEN NextEpisode(Logged(r, "ok"))
                      ELSE [Logged(r, "failed") EXCEPT !.pc = "finish"]]
        /\ UNCHANGED <<feed, blksize, fs, call>>

\* lines 282-283: destroy the progress window and return
Finish(s) ==
    /\ sess[s].pc = "finish"
    /\ sess' = [sess EXCEPT ![s] = Returned(sess[s])]
    /\ UNCHANGED <<feed, blksize, fs, call>>

do_update_tdz(s) ==
    \/ ensure_output_dir(s)
    \/ ParseFeed(s)
    \/ LoopTop(s)
    \/ Classify(s)
    \/ GetSize(s)
    \/ RemoveStale(s)
    \/ Unlink(s)
    \/ HeadRequest(s)
    \/ Record(s)
    \/ Finish(s)

download_one_file(s) ==
    \/ Get(s)
    \/ Chunk(s)
    \/ Write(s)
    \/ StreamError(s)
    \/ StreamEnd(s)
    \/ WakeUp(s)

(***************************************************************************)
(* Spec: the user presses the update button whenever the main window       *)
(* responds, also while the thread of an earlier press is still running;   *)
(* the threads interleave at the steps of do_update_tdz and                *)
(* download_one_file.                                                      *)
(***************************************************************************)
\* the user presses the update button of the main window
PressUpdate(s) == MainResponds /\ on_update(s)

Next ==
    \E s \in Sessions :
        \/ PressUpdate(s)
        \/ on_cancel(s)
        \/ do_update_tdz(s)
        \/ download_one_file(s)

Spec == Init /\ [][Next]_vars

(***************************************************************************)
(* SpecFair: Spec for a thread that keeps running: a session that has its  *)
(* progress window takes its next step whenever it has one (a request      *)
(* fails, ends or delivers its next chunk because of HTTP_TIMEOUT,         *)
(* time.sleep returns).  No step is promised of ensure_output_dir, whose    *)
(* error dialog waits for the user, nor of feedparser.parse, which has no  *)
(* timeout, and the user is under no obligation.  A thread that an         *)
(* uncaught exception has ended has no step left, and quitting the program *)
(* (the threads are daemon threads) is not a step of the model.  The feed  *)
(* holds the entry " a?", and a.mp3 is there, with 0 bytes, before the     *)
(* first session.                                                          *)
(***************************************************************************)
InitFair ==
    /\ feed = <<EpQ>>
    /\ blksize = DEFAULT_BUFFER_SIZE
    /\ fs = Disk(Empty, NoFile)
    /\ sess = [s \in Sessions |-> Idle]
    /\ call = NoCall

\* the steps of a session from the top of the episode loop on
InLoop(s) ==
    \/ LoopTop(s)
    \/ Classify(s)
    \/ GetSize(s)
    \/ RemoveStale(s)
    \/ Unlink(s)
    \/ HeadRequest(s)
    \/ Record(s)
    \/ Finish(s)
    \/ download_one_file(s)

SpecFair ==
    /\ InitFair
    /\ [][Next]_vars
    /\ \A s \in Sessions : WF_vars(InLoop(s))

(***************************************************************************)
(* SpecBytes: Spec with chunks that do not fit the buffer of the file      *)
(* object of line 300, as the chunks of 8192 bytes do on a file system     *)
(* that reports a block size of 4096: the buffer has 2 bytes, and the      *)
(* first entry of the feed is served in chunks of 4 bytes and 1 byte, with *)
(* a HEAD that reports a Content-Length, so that f.write calls os.write,   *)
(* which takes any part of what it is given or raises.  The second entry   *)
(* is "a", whose file is in the output directory in full.  b.mp3 is        *)
(* absent, or there with 0 bytes.                                          *)
(***************************************************************************)
\* "b", served by u1: no length attribute
EpB1 == Entry(<<98>>, <<Enclosure("u1", NoText)>>)

InitBytes ==
    /\ feed = <<EpB1, EpA>>
    /\ blksize = 2
    /\ fs \in {Disk(Complete("u2"), NoFile), Disk(Complete("u2"), Empty)}
    /\ sess = [s \in Sessions |-> Idle]
    /\ call = NoCall

SpecBytes == InitBytes /\ [][Next]_vars

(***************************************************************************)
(* SpecScenario: Spec over the feeds of three entries, one without         *)
(* enclosure, one whose file is on disk in full and one whose file is      *)
(* absent, in any order; and over the feed of " a?" with a.mp3 of 0 bytes. *)
(***************************************************************************)
ScenarioEntries == {Dropped, EpA, EpB}

ScenarioFeeds ==
    { f \in [1..3 -> ScenarioEntries] : \A i, j \in 1..3 : i # j => f[i] # f[j] }

ScenarioDisk == Disk(Complete("u2"), NoFile)

InitScenario ==
    /\ \/ /\ feed \in ScenarioFeeds
          /\ fs = ScenarioDisk
       \/ /\ feed = <<EpQ>>
          /\ fs = Disk(Empty, NoFile)
    /\ blksize = DEFAULT_BUFFER_SIZE
    /\ sess = [s \in Sessions |-> Idle]
    /\ call = NoCall

SpecScenario == InitScenario /\ [][Next]_vars

(***************************************************************************)
(* SpecOrder: Spec over feeds whose entries carry a publish date (the      *)
(* published field feedparser gives an entry; do_update_tdz does not read  *)
(* it): the four entries dated 2023-01-01, 2023-03-01, unknown and         *)
(* 2023-02-01, in that order, in ascending and in descending order of      *)
(* date.  Every entry declares 1000003 bytes, more than TOLERANCE above    *)
(* the 2 its URL serves.  The output directory starts empty, or with       *)
(* feb.mp3 of 0 bytes.  The sessions before the last have returned (they   *)
(* found no feed): one sync goes through the feed.                         *)
(***************************************************************************)
NoDate == [known |-> FALSE, day |-> 0]

Date(yyyymmdd) == [known |-> TRUE, day |-> yyyymmdd]

Dated(title, published) ==
    [title |-> title,
     enclosures |->
         <<Enclosure("u2", Text(<<49, 48, 48, 48, 48, 48, 51>>))>>,
     published |-> published]

Jan == Dated(<<106, 97, 110>>, Date(20230101))

Feb == Dated(<<102, 101, 98>>, Date(20230201))

Mar == Dated(<<109, 97, 114>>, Date(20230301))

Undated == Dated(<<110, 111, 110, 101>>, NoDate)

OrderFeeds ==
    { <<Jan, Mar, Undated, Feb>>,
      <<Jan, Feb, Mar, Undated>>,
      <<Mar, Feb, Jan, Undated>> }

InitOrder ==
    /\ feed \in OrderFeeds
    /\ blksize = DEFAULT_BUFFER_SIZE
    /\ fs \in { [p \in { OutPath(e.title) : e \in {Jan, Feb, Mar, Undated} } |->
                     IF p \in old THEN Empty ELSE NoFile] :
                 old \in {{}, {OutPath(Feb.title)}} }
    /\ sess = [s \in Sessions |->
                 IF s < MaxSessions THEN Forgotten(Idle) ELSE Idle]
    /\ call = NoCall

SpecOrder == InitOrder /\ [][Next]_vars

(***************************************************************************)
(* SpecLengths: Spec over feeds whose enclosures declare no usable length: *)
(* no length attribute, an empty one, "0", a negative number, a number     *)
(* followed by a unit.  Each feed has an entry "a", whose file is there    *)
(* with 0 bytes, and an entry "b", whose file is absent.  For comparison,  *)
(* one feed has an entry that declares 2000000, written between a tab and  *)
(* a line feed, over a file of 0 bytes.                                    *)
(***************************************************************************)
BadLengths ==
    { NoText,
      Text(<<>>),
      Text(<<48>>),
      Text(<<45, 50, 48, 48, 48, 48, 48, 48>>),
      Text(<<50, 48, 48, 48, 48, 48, 48, 66>>) }

\* the lengths of "a" and of "b" in a feed: each length of BadLengths once
\* for each
LengthPairs ==
    { <<NoText, Text(<<>>)>>,
      <<Text(<<>>), Text(<<48>>)>>,
      <<Text(<<48>>), Text(<<45, 50, 48, 48, 48, 48, 48, 48>>)>>,
      <<Text(<<45, 50, 48, 48, 48, 48, 48, 48>>),
        Text(<<50, 48, 48, 48, 48, 48, 48, 66>>)>>,
      <<Text(<<50, 48, 48, 48, 48, 48, 48, 66>>), NoText>> }

LengthFeeds ==
    { <<Entry(<<97>>, <<Enclosure("u2", l[1])>>),
        Entry(<<98>>, <<Enclosure("u2", l[2])>>)>> : l \in LengthPairs }

\* "a" declaring 2000000 between a tab and a line feed
EpTabbed ==
    Entry(<<97>>,
          <<Enclosure("u2", Text(<<9, 50, 48, 48, 48, 48, 48, 48, 10>>))>>)

InitLengths ==
    /\ \/ /\ feed \in LengthFeeds
          /\ fs = Disk(Empty, NoFile)
       \/ /\ feed = <<EpTabbed>>
          /\ fs = Disk(Empty, NoFile)
    /\ blksize = DEFAULT_BUFFER_SIZE
    /\ sess = [s \in Sessions |-> Idle]
    /\ call = NoCall

SpecLengths == InitLengths /\ [][Next]_vars

(***************************************************************************)
(* SpecClassifier: is_incomplete on its own, applied once to a file and a  *)
(* remote size drawn from values around the tolerance boundary.            *)
(***************************************************************************)
ProbeRemoteSizes == {-1, 0, 1, TOLERANCE, TOLERANCE + 1, 10000000}

ProbeLocalSizes ==
    {0, 1, 10000000 - TOLERANCE - 1, 10000000 - TOLERANCE,
     10000000 - TOLERANCE + 1, 10000000 - 1, 10000000, 10000001}

ProbeFiles == {NoFile} \cup { File(n, FALSE) : n \in ProbeLocalSizes }

InitClassifier ==
    /\ feed = <<>>
    /\ blksize = DEFAULT_BUFFER_SIZE
    /\ fs = [p \in Paths |-> NoFile]
    /\ sess = [s \in Sessions |-> Idle]
    /\ \E f \in ProbeFiles, r \in ProbeRemoteSizes :
         call = [file |-> f, remote_size |-> r, done |-> FALSE,
                 result |-> FALSE]

CallClassifier ==
    /\ ~call.done
    /\ call' = [call EXCEPT !.done = TRUE,
                            !.result = is_incomplete(call.file, call.remote_size)]
    /\ UNCHANGED <<feed, blksize, fs, sess>>

SpecClassifier == InitClassifier /\ [][CallClassifier]_vars

(***************************************************************************)
(* Properties.                                                             *)
(***************************************************************************)
LastLog(r) == r.log[Len(r.log)]

HasEnclosure(i) == feed[i].enclosures # <<>>

PathOf(i) == OutPath(feed[i].title)

UrlOf(i) == feed[i].enclosures[1].href

DeclaredOf(i) == FeedLen(feed[i].enclosures[1])

\* the next step of the session's classification skips the episode as
\* already present: the condition of line 251 holds, with the size that line
\* 69 is about to read where it reads one
AboutToSkip(r) ==
    \/ /\ r.pc = "classify"
       /\ ~ReachesGetSize(fs[r.outpath], r.feed_len)
       /\ AlreadyHave(fs[r.outpath], r.feed_len)
    \/ /\ r.pc = "getsize"
       /\ AlreadyHave(fs[r.outpath], r.feed_len)

\* download_one_file is active in the session
Transferring(r) == r.pc \in {"get", "stream", "write", "sleep"}

\* a transfer into the path is going on
BeingWritten(p) ==
    \E t \in Sessions : Transferring(sess[t]) /\ sess[t].outpath = p

\* C1: whenever a run is about to skip an episode as already present (the
\* condition of line 251 holds at the classification), the local file is not
\* the partial output of a transfer that returned without success: it was
\* not opened for writing by a transfer that is over and did not return True.
C1_PartialNeverSkipped ==
    \A s \in Sessions :
        (AboutToSkip(sess[s]) /\ ~BeingWritten(sess[s].outpath))
        => ~fs[sess[s].outpath].partial

\* every declared size that is > 0 is at most TOLERANCE above the bytes the
\* entry's URL serves
DeclaredWithinTolerance ==
    \A i \in 1..Len(feed) :
        HasEnclosure(i) =>
            \/ DeclaredOf(i) <= 0
            \/ DeclaredOf(i) <= Served(UrlOf(i)) + TOLERANCE

\* a session that follows a session which ended with no cancellation and no
\* failed transfer deletes no file and sends no GET, and when it leaves the
\* loop uncancelled it has logged every entry with an enclosure as skipped
SecondRunSkipsAll ==
    \A s \in Sessions :
        sess[s].after_clean =>
            /\ sess[s].removed = {}
            /\ sess[s].fetched = {}
            /\ (sess[s].pc = "finish" /\ ~sess[s].cancelled) =>
                   \A i \in 1..Len(feed) :
                       HasEnclosure(i) =>
                           \E k \in 1..Len(sess[s].log) :
                               sess[s].log[k] = <<"already_have", i>>

\* C2 as stated: a sync run after a sync that ended with no cancellation and
\* no failed transfer deletes nothing, transfers nothing and skips every
\* entry that has an enclosure, whatever sizes the feed declares.
C2_IdempotentAnyFeed == SecondRunSkipsAll

\* C2 amended: the same, for feeds whose declared sizes > 0 are at most
\* TOLERANCE above the bytes actually served for the entry.
C2_IdempotentHonestFeed == SecondRunSkipsAll \/ ~DeclaredWithinTolerance

\* a second run has gone through a feed with declared sizes within
\* tolerance, over a file that holds all the bytes its URL serves
C2_Witness ==
    \E s \in Sessions :
        /\ sess[s].after_clean
        /\ sess[s].pc = "finish"
        /\ ~sess[s].cancelled
        /\ DeclaredWithinTolerance
        /\ \E i \in 1..Len(feed) :
               /\ HasEnclosure(i)
               /\ DeclaredOf(i) > 0
               /\ fs[PathOf(i)] = File(Served(UrlOf(i)), FALSE)
               /\ \E k \in 1..Len(sess[s].log) :
                      sess[s].log[k] = <<"already_have", i>>

\* the entries after i in the feed
Later(i) == (i + 1)..Len(feed)

\* C3: when a transfer returns failure with its retries exhausted and no
\* cancellation was requested, the failure is recorded and the session still
\* begins every later entry of the feed before it leaves the loop.
C3_FailureNotFatal ==
    \A s \in Sessions :
        (sess[s].pc = "finish" /\ sess[s].why = "exhausted"
         /\ ~sess[s].cancelled)
        => /\ LastLog(sess[s]) = <<"failed", sess[s].idx>>
           /\ Later(sess[s].idx) \subseteq sess[s].began

\* the bytes of the first n chunks of a body
RECURSIVE Prefix(_, _)
Prefix(body, n) == IF n = 0 THEN 0 ELSE Prefix(body, n - 1) + body[n]

\* C4: a transfer cancelled after chunk N of M (N < M) has written chunks
\* 1..N only, its recorded outcome is not the outcome recorded for a failed
\* transfer, and no later episode of the session is begun.
C4_CancelledOutcome ==
    \A s \in Sessions :
        (sess[s].pc = "finish" /\ sess[s].why = "cancelled")
        => /\ sess[s].pos < Len(Body(sess[s].mp3_url))
           /\ fs[sess[s].outpath].size = Prefix(Body(sess[s].mp3_url), sess[s].pos)
           /\ Later(sess[s].idx) \cap sess[s].began = {}
           /\ LastLog(sess[s]) # <<"failed", sess[s].idx>>

\* C5: a transfer whose attempts all fail sends exactly MAX_RETRIES (3) GETs
\* and has slept 2s then 4s between them; attempt k+1 starts after a sleep of
\* INITIAL_BACKOFF * 2^(k-1); a transfer that succeeds at attempt k has sent
\* exactly k GETs when it returns.
C5_RetryPolicy ==
    \A s \in Sessions :
        LET r == sess[s]
        IN  /\ (r.pc = "ret" /\ r.why = "exhausted") =>
                   /\ r.gets = 3
                   /\ SubSeq(r.sleeps, 1, 2) = <<2, 4>>
            /\ (r.pc = "get" /\ r.attempt > 1) =>
                   /\ r.gets = r.attempt - 1
                   /\ Len(r.sleeps) = r.attempt - 1
                   /\ r.sleeps[r.attempt - 1] = 2 * 2 ^ (r.attempt - 2)
            /\ (r.pc = "ret" /\ r.why = "success") =>
                   /\ r.gets = r.attempt
                   /\ r.gets <= 3

\* a transfer has returned failure after three failed attempts
C5_Witness ==
    \E s \in Sessions :
        /\ sess[s].pc = "ret"
        /\ sess[s].why = "exhausted"
        /\ sess[s].gets = 3
        /\ Len(sess[s].sleeps) = 3

\* the session logged the result of a transfer for entry i
OutcomeLogged(r, i) ==
    \E k \in 1..Len(r.log) : r.log[k] \in {<<"ok", i>>, <<"failed", i>>}

\* a file disappears only in the step of line 255, taken by a session whose
\* current episode maps to that path, for which the file is damaged
\* (is_incomplete holds of it) and for which no GET has been sent yet
DeletedOnlyWhenDamaged ==
    \A p \in DOMAIN fs :
        (fs[p].exists /\ ~fs'[p].exists) =>
            \E s \in Sessions :
                /\ sess[s].pc = "unlink"
                /\ sess'[s].pc = "head"
                /\ sess[s].outpath = p
                /\ is_incomplete(fs[p], sess[s].feed_len)
                /\ sess[s].idx \notin sess[s].fetched
                /\ sess'[s].removed = sess[s].removed \cup {sess[s].idx}

\* every entry whose file the session removed is either the episode in
\* progress, on its way to the transfer or in it, or has had a GET sent and
\* its result logged
DeletionThenTransfer ==
    \A s \in Sessions :
        LET r == sess[s]
        IN  \A i \in r.removed :
                \/ /\ i = r.idx
                   /\ r.pc \in {"head", "get", "stream", "write", "sleep",
                               "ret"}
                \/ i \in r.fetched /\ OutcomeLogged(r, i)

\* C6: a local file is deleted only when it was classified damaged for the
\* episode being processed, before that episode's transfer starts, and every
\* deletion is followed in the session by a transfer attempt for the same
\* episode whose outcome is recorded.
C6_DeletionDiscipline ==
    /\ []DeletionThenTransfer
    /\ [][DeletedOnlyWhenDamaged]_vars

\* the file at entry i's path is intact for entry i: it exists, is not the
\* output of an unfinished or failed transfer, and is not incomplete against
\* the entry's declared size
Intact(i) ==
    /\ HasEnclosure(i)
    /\ fs[PathOf(i)].exists
    /\ ~fs[PathOf(i)].partial
    /\ ~is_incomplete(fs[PathOf(i)], DeclaredOf(i))

\* C7: a local file that is complete for its episode is never deleted,
\* truncated or rewritten, also when two entries share an output path.
C7_IntactUntouched ==
    [][\A i \in 1..Len(feed) : Intact(i) => fs'[PathOf(i)] = fs[PathOf(i)]]_vars

\* C8: for an existing local file and a remote size > 0, is_incomplete
\* reports damaged exactly when remoteSize - localSize > TOLERANCE: a deficit
\* of TOLERANCE or TOLERANCE - 1 is complete, a deficit of TOLERANCE + 1 is
\* damaged, and a file larger than the remote size is complete.
C8_ToleranceBoundary ==
    (call.done /\ call.file.exists /\ call.remote_size > 0) =>
        LET deficit == call.remote_size - call.file.size
        IN  /\ call.result <=> (deficit > 1000000)
            /\ deficit \in {1000000 - 1, 1000000} => ~call.result
            /\ deficit = 1000000 + 1 => call.result
            /\ deficit < 0 => ~call.result

\* is_incomplete has returned "complete" for a deficit of exactly TOLERANCE
C8_Witness ==
    /\ call.done
    /\ call.file.exists
    /\ call.remote_size = 10000000
    /\ call.remote_size - call.file.size = 1000000
    /\ ~call.result

\* what a HEAD request to entry i's URL reports as Content-Length
ProbedOf(i) == HeadTotal(UrlOf(i), "len")

\* the session has just skipped entry i as already present
JustSkipped(r, i) ==
    /\ r.pc = "loop"
    /\ r.idx = i + 1
    /\ r.log # <<>>
    /\ LastLog(r) = <<"already_have", i>>

\* C9: when the declared size of an entry is absent, malformed or 0 and a
\* local file exists, the file is classified against the Content-Length of
\* a HEAD request: a file more than TOLERANCE smaller than that length is
\* not skipped as already present.
C9_ProbedSizeClassifies ==
    \A s \in Sessions : \A i \in 1..Len(feed) :
        (JustSkipped(sess[s], i) /\ DeclaredOf(i) <= 0)
        => ~(fs[PathOf(i)].size + TOLERANCE < ProbedOf(i))

\* C10: when an entry has no declared size > 0, an existing local file of
\* any size, 0 bytes included, is classified complete: the classification
\* step logs the skip and moves to the next entry, no file changes, nothing
\* is deleted and no GET is sent.
C10_UnknownSizeOptimism ==
    [][\A s \in Sessions :
          (sess[s].pc = "classify" /\ sess[s].feed_len <= 0
           /\ fs[sess[s].outpath].exists /\ sess'[s].pc # "classify")
          => /\ JustSkipped(sess'[s], sess[s].idx)
             /\ fs' = fs
             /\ sess'[s].removed = sess[s].removed
             /\ sess'[s].fetched = sess[s].fetched]_vars

\* an entry without declared size has just been skipped over a 0-byte file
C10_Witness ==
    \E s \in Sessions : \E i \in 1..Len(feed) :
        /\ JustSkipped(sess[s], i)
        /\ DeclaredOf(i) <= 0
        /\ fs[PathOf(i)].exists
        /\ fs[PathOf(i)].size = 0

\* C11: in every reachable state, whatever the user does (pressing the update
\* button again while a sync is running included), at most one session is
\* inside download_one_file.
C11_OneTransferAtATime ==
    Cardinality({s \in Sessions : Transferring(sess[s])}) <= 1

\* no other session has entered the episode loop: what is in the output
\* directory was there before the session or is the session's own work
Alone(s) ==
    \A t \in Sessions \ {s} :
        \/ sess[t].pc \in {"idle", "ensure_dir", "parse"}
        \/ sess[t].exit \in {"no_dir", "no_entries"}

\* the bytes of the last attempt that can be in the file beyond those
\* counted in downloaded: the part of the chunk that os.write took before
\* f.write raised
Uncounted(r) ==
    IF r.oserr = "write" /\ Body(r.mp3_url)[r.pos + 1] > blksize
    THEN Body(r.mp3_url)[r.pos + 1] - blksize - 1
    ELSE 0

\* C12: every retry truncates the destination before it writes, so while an
\* attempt is writing, and when download_one_file returns (success, or
\* failure after the last retry), the destination holds only the bytes the
\* last attempt wrote and none of an earlier failed attempt: as many as the
\* attempt has written out while it runs and when it returns True or for a
\* cancellation, and no more than it wrote when it returns for a failure.
\* Stated of a session that has the output directory to itself.
C12_RetriesTruncate ==
    \A s \in Sessions :
        LET r == sess[s]
        IN  (Alone(s) /\ r.pc \in {"stream", "write", "ret"}
             /\ fs[r.outpath].exists) =>
            /\ r.pc \in {"stream", "write"} =>
                   fs[r.outpath].size = r.downloaded - r.buffered
            /\ (r.pc = "ret" /\ r.why \in {"success", "cancelled"}) =>
                   fs[r.outpath].size = r.downloaded
            /\ (r.pc = "ret" /\ r.why = "exhausted") =>
                   fs[r.outpath].size <= r.downloaded + Uncounted(r)

\* the step of the session is a call of update_progress (line 308)
ProgressCall(s) ==
    /\ sess[s].pc = "write"
    /\ sess'[s].pc = "stream"
    /\ sess'[s].pos = sess[s].pos + 1

\* C13: within one call of download_one_file, all its attempts included,
\* every call of update_progress carries a byte count strictly greater than
\* the call before it.
C13_ProgressIncreasing ==
    [][\A s \in Sessions :
          (ProgressCall(s) /\ sess[s].reported >= 0)
          => sess'[s].reported > sess[s].reported]_vars

\* the step is a step of the thread of session s
Acts(s) == <<sess'[s].pc, sess'[s].idx>> # <<sess[s].pc, sess[s].idx>>

\* the bytes of the chunk the session is handling: the chunk that has passed
\* the read of the flag at line 302 and is not yet counted
InHand(r) == IF r.pc = "write" THEN Body(r.mp3_url)[r.pos + 1] ELSE 0

\* C14: once the cancel flag of a session is set, at most the chunk already
\* being handled (the one that had passed the read of the flag at line 302)
\* is written: the read of the flag before the next chunk returns, the
\* session makes a file grow only by that chunk or by the buffered bytes of
\* earlier chunks when the file is closed, its next step at the loop top
\* leaves the loop, and no entry after the current one is begun: nothing is
\* classified, deleted or requested for it.
C14_CancelAtCheckpoint ==
    [][\A s \in Sessions :
          (sess[s].cancelled /\ HasWindow(sess[s]))
          => /\ sess'[s].began \subseteq sess[s].began
             /\ sess'[s].removed \subseteq sess[s].removed \cup {sess[s].idx}
             /\ sess'[s].fetched \subseteq sess[s].fetched \cup {sess[s].idx}
             /\ sess[s].pc # "write"
                    => sess'[s].downloaded <= sess[s].downloaded
             /\ (sess[s].pc = "stream" /\ sess'[s].pc # "stream")
                    => sess'[s].pc \in {"ret", "sleep"}
             /\ Acts(s) =>
                    \A p \in DOMAIN fs :
                        fs'[p].size > fs[p].size
                        => /\ p = sess[s].outpath
                           /\ sess[s].pc \in {"stream", "write"}
                           /\ fs'[p].size
                                  <= sess[s].downloaded + InHand(sess[s])
             /\ (sess[s].pc = "loop" /\ Acts(s))
                    => sess'[s].pc = "finish"]_vars

\* a session cancelled after the first of two chunks has left the loop with
\* a later entry in the feed that it never began
C14_Witness ==
    \E s \in Sessions :
        /\ sess[s].pc = "finish"
        /\ sess[s].cancelled
        /\ sess[s].why = "cancelled"
        /\ sess[s].pos = 1
        /\ Len(Body(sess[s].mp3_url)) = 2
        /\ fs[sess[s].outpath].size = Body(sess[s].mp3_url)[1]
        /\ sess[s].idx < Len(feed)
        /\ Later(sess[s].idx) \cap sess[s].began = {}

\* the session is at the loop top, uncancelled, before an entry that has no
\* enclosure
AtDropped(r) ==
    /\ r.pc = "loop"
    /\ r.idx <= Len(feed)
    /\ ~r.cancelled
    /\ ~HasEnclosure(r.idx)

\* the step over an entry without enclosure changes no file and, of the
\* session, only the loop index, the set of entries begun and the log
DroppedChangesNothing ==
    \A s \in Sessions :
        (AtDropped(sess[s]) /\ sess'[s].idx # sess[s].idx)
        => /\ fs' = fs
           /\ sess'[s] =
                [sess[s] EXCEPT !.idx = sess[s].idx + 1,
                                !.began = sess[s].began \cup {sess[s].idx},
                                !.log = Append(sess[s].log,
                                               <<"no_enclosures", sess[s].idx>>)]

\* the session has left the loop with no cancellation and no failed transfer
EndedClean(r) ==
    /\ r.pc = "finish"
    /\ ~r.cancelled
    /\ \A k \in 1..Len(r.log) : r.log[k][1] \notin {"failed", "cancelled"}

\* the log lines of kind `kind` for entry i
Lines(r, kind, i) == { k \in 1..Len(r.log) : r.log[k] = <<kind, i>> }

\* in a session that ended clean, an entry without enclosure had nothing
\* removed or requested, and every entry with an enclosure was classified and
\* either skipped or transferred
OthersProcessed ==
    \A s \in Sessions :
        EndedClean(sess[s]) =>
            \A i \in 1..Len(feed) :
                /\ i \in sess[s].began
                /\ ~HasEnclosure(i) =>
                       /\ i \notin sess[s].removed \cup sess[s].fetched
                       /\ Lines(sess[s], "no_enclosures", i) # {}
                /\ HasEnclosure(i) =>
                       Lines(sess[s], "already_have", i)
                           \cup Lines(sess[s], "ok", i) # {}

\* C15: an entry without enclosure is dropped without being fatal: its step
\* deletes and writes no file and sends no request, and leaves the session as
\* it was but for the loop index and the log, so that the other entries are
\* processed as without it; a clean session has processed every other entry.
C15_DroppedNotFatal ==
    /\ [][DroppedChangesNothing]_vars
    /\ []OthersProcessed

\* a clean session has dropped entry 1 for lack of an enclosure, transferred
\* entry 2 and gone on to entry 3
C15_Witness ==
    \E s \in Sessions :
        /\ EndedClean(sess[s])
        /\ Len(feed) = 3
        /\ ~HasEnclosure(1)
        /\ <<"no_enclosures", 1>> = sess[s].log[1]
        /\ <<"ok", 2>> = sess[s].log[2]
        /\ \E k \in 1..Len(sess[s].log) : sess[s].log[k][2] = 3
        /\ fs[PathOf(2)] = File(Served(UrlOf(2)), FALSE)

\* t is the session the next press of the update button starts
NextToStart(t) ==
    sess[t].pc = "idle" /\ \A u \in Sessions : u < t => sess[u].pc # "idle"

\* do_update_tdz of the session has returned and its thread has ended as any
\* thread does; it has left no window and no grab, so that the main window
\* takes the next press of the update button unless the progress window of
\* another session holds the grab
HostRuns(s) ==
    /\ sess[s].pc = "done"
    /\ ~sess[s].grab
    /\ \A t \in Sessions :
           (Responds(s) /\ NextToStart(t)) => ENABLED PressUpdate(t)

\* when ensure_output_dir raises, do_update_tdz returns at once: the session
\* goes from line 210 to its end and no file changes
DirFailureEnds ==
    \A s \in Sessions :
        (sess[s].pc = "ensure_dir" /\ sess'[s].pc \notin {"ensure_dir", "parse"})
        => /\ sess'[s].pc = "done"
           /\ sess'[s].exit = "no_dir"
           /\ fs' = fs

\* a transfer whose last attempt failed in open or f.write has returned
\* False, and the session has left the loop without any later entry begun;
\* once the session has returned (and until the next press of the update
\* button) the host is running
WriteFailureEnds ==
    \A s \in Sessions :
        /\ (sess[s].pc = "finish" /\ sess[s].why = "exhausted"
            /\ sess[s].oserr # "none")
           => /\ LastLog(sess[s]) = <<"failed", sess[s].idx>>
              /\ Later(sess[s].idx) \cap sess[s].began = {}
        /\ sess[s].exit \in {"no_dir", "finished"} => HostRuns(s)

\* when download_one_file has returned False after a last attempt that failed
\* in open or f.write, the next step of do_update_tdz logs the failure and
\* leaves the loop
WriteFailureBreaks ==
    \A s \in Sessions :
        (sess[s].pc = "ret" /\ sess[s].why = "exhausted"
         /\ sess[s].oserr # "none"
         /\ sess'[s].pc # "ret")
        => /\ sess'[s].pc = "finish"
           /\ LastLog(sess'[s]) = <<"failed", sess[s].idx>>
           /\ sess'[s].began = sess[s].began
           /\ fs' = fs

\* C16: a filesystem error ends the sync: when the output directory cannot
\* be created do_update_tdz returns before the feed is parsed, with no file
\* changed; when the destination cannot be opened or written, no later entry
\* of the feed is processed; in both cases the host keeps running.
C16_FilesystemErrorFatal ==
    /\ [][DirFailureEnds /\ WriteFailureBreaks]_vars
    /\ []WriteFailureEnds

\* the session has left the loop after the three attempts for entry 1 of 2
\* failed, the last one in f.write
C16_Witness ==
    \E s \in Sessions :
        /\ sess[s].pc = "finish"
        /\ sess[s].why = "exhausted"
        /\ sess[s].oserr = "write"
        /\ sess[s].gets = 3
        /\ sess[s].idx = 1
        /\ Len(feed) = 2
        /\ sess[s].began = {1}

\* the log lines that report an outcome for entry i
Outcomes(r, i) ==
    Lines(r, "already_have", i) \cup Lines(r, "ok", i) \cup Lines(r, "failed", i)

\* the number of outcome lines of a kind in the log
Count(r, kind) == Cardinality({ k \in 1..Len(r.log) : r.log[k][1] = kind })

\* the session is at the condition of line 251
Classifying(r) == r.pc \in {"classify", "getsize"}

\* the classification skips the entry exactly when its file exists and is
\* not incomplete against the size the entry declares
SkippedIffComplete ==
    \A s \in Sessions :
        (Classifying(sess[s]) /\ ~Classifying(sess'[s]))
        => (JustSkipped(sess'[s], sess[s].idx)
            <=> /\ fs[PathOf(sess[s].idx)].exists
                /\ ~is_incomplete(fs[PathOf(sess[s].idx)],
                                  DeclaredOf(sess[s].idx)))

\* the session has ended, by leaving the loop or with its thread, with no
\* cancellation and no failed transfer
EndedUnfailed(r) ==
    /\ r.pc \in {"finish", "dead"}
    /\ ~r.cancelled
    /\ \A k \in 1..Len(r.log) : r.log[k][1] \notin {"failed", "cancelled"}

\* in a session that ended with no cancellation and no failed transfer every
\* entry with an enclosure has one outcome, skipped with nothing requested
\* or downloaded with a GET, and an entry without enclosure has none; the
\* first session over the scenario feed reports 1 skipped, 1 downloaded,
\* 0 failed
OneOutcomeEach ==
    \A s \in Sessions :
        EndedUnfailed(sess[s]) =>
            /\ \A i \in 1..Len(feed) :
                   /\ HasEnclosure(i) =>
                          /\ Cardinality(Outcomes(sess[s], i)) = 1
                          /\ Lines(sess[s], "already_have", i) # {}
                                 => i \notin sess[s].removed \cup sess[s].fetched
                          /\ Lines(sess[s], "ok", i) # {}
                                 => /\ i \in sess[s].fetched
                                    /\ fs[PathOf(i)].exists
                   /\ ~HasEnclosure(i) => Outcomes(sess[s], i) = {}
            /\ (s = 1 /\ feed \in ScenarioFeeds) =>
                   /\ Count(sess[s], "already_have") = 1
                   /\ Count(sess[s], "ok") = 1
                   /\ Count(sess[s], "failed") = 0

\* C17: in a session with no cancellation and no failed transfer, every
\* entry with an enclosure receives exactly one outcome, skipped when its
\* local file is complete and downloaded otherwise, and a dropped entry
\* appears in no outcome; a 3-entry feed with one entry without enclosure,
\* one complete locally and one absent gives 1 skipped, 1 downloaded,
\* 0 failed.
C17_OutcomeAccounting ==
    /\ [][SkippedIffComplete]_vars
    /\ []OneOutcomeEach

\* entry d comes no later than entry e in the order of publish date,
\* ascending when oldestFirst and descending otherwise, undated entries last
InDateOrder(d, e, oldestFirst) ==
    IF ~d.known THEN ~e.known
    ELSE IF ~e.known THEN TRUE
    ELSE IF oldestFirst THEN d.day <= e.day
    ELSE d.day >= e.day

\* the entries of the log, in the order they were processed, are in order of
\* publish date
ProcessedInDateOrder(r, oldestFirst) ==
    \A j, k \in 1..Len(r.log) :
        j < k => InDateOrder(feed[r.log[j][2]].published,
                             feed[r.log[k][2]].published, oldestFirst)

\* C18: the episodes of a feed are classified and downloaded in order of
\* publish date, ascending for oldestFirst and descending otherwise, entries
\* without date last: a session that went through the whole feed processed
\* it in one of the two orders.
C18_PublishDateOrder ==
    \A s \in Sessions :
        (EndedClean(sess[s]) /\ Len(sess[s].log) = Len(feed))
        => \E oldestFirst \in BOOLEAN :
               ProcessedInDateOrder(sess[s], oldestFirst)

\* the session enters the episode loop only with a feed that has entries;
\* otherwise do_update_tdz returns from line 219 with no file changed
FeedFailureEnds ==
    \A s \in Sessions :
        (sess[s].pc = "parse" /\ sess'[s].pc # "parse")
        => \/ /\ sess'[s].pc = "loop"
              /\ feed # <<>>
           \/ /\ sess'[s].pc = "done"
              /\ sess'[s].exit = "no_entries"
              /\ fs' = fs

\* C19: when the feed cannot be fetched or parsed, or has no entries,
\* do_update_tdz ends without deleting or writing a file and without a media
\* request (it never enters the episode loop), and the program keeps running:
\* the main window takes the next press of the update button.
C19_FeedFailureFatalToSync ==
    /\ [][FeedFailureEnds]_vars
    /\ [](\A s \in Sessions : sess[s].exit = "no_entries" => HostRuns(s))

\* a session has returned for lack of entries although the server publishes
\* a feed with entries (the fetch failed), a file is on disk as before, and a
\* new sync can be started
C19_Witness ==
    \E s \in Sessions :
        /\ sess[s].exit = "no_entries"
        /\ feed # <<>>
        /\ \E p \in DOMAIN fs : fs[p] = File(0, FALSE)
        /\ HostRuns(s)
        /\ s < MaxSessions
        /\ ENABLED PressUpdate(s + 1)

\* C20: the call of is_incomplete (the classification steps of line 251)
\* leaves every file as it was, whatever the file and the remote size: it
\* creates, deletes, truncates and writes nothing; a file disappears only in
\* the os.remove step of do_update_tdz (line 255).
C20_ClassifierNoSideEffect ==
    [][/\ \A s \in Sessions :
             (Classifying(sess[s]) /\ sess'[s] # sess[s]) => fs' = fs
       /\ \A p \in DOMAIN fs :
             (fs[p].exists /\ ~fs'[p].exists)
             => \E s \in Sessions :
                    /\ sess[s].pc = "unlink"
                    /\ sess'[s].pc = "head"
                    /\ sess[s].outpath = p]_vars

\* the classification has found an existing file incomplete and the file is
\* still there, for line 255 to remove
C20_Witness ==
    \E s \in Sessions :
        /\ sess[s].pc = "remove"
        /\ fs[sess[s].outpath].exists
        /\ sess[s].feed_len > 0
        /\ is_incomplete(fs[sess[s].outpath], sess[s].feed_len)

\* entry i declares no usable length
BadLength(i) ==
    HasEnclosure(i) /\ feed[i].enclosures[1].length \in BadLengths

\* at the classification of an entry without usable length the declared size
\* is unknown (not above 0) and the entry is classified as with size 0
BadLengthIsUnknown ==
    \A s \in Sessions :
        (sess[s].pc = "classify" /\ BadLength(sess[s].idx))
        => /\ sess[s].feed_len <= 0
           /\ AlreadyHave(fs[sess[s].outpath], sess[s].feed_len)
                  <=> AlreadyHave(fs[sess[s].outpath], 0)

\* the loop top takes an entry without usable length to its classification,
\* and the classification skips it when its file exists and goes on to the
\* transfer when it is absent
BadLengthProcessed ==
    \A s \in Sessions :
        LET r == sess[s]
        IN  /\ (r.pc = "loop" /\ r.idx <= Len(feed) /\ ~r.cancelled
                /\ sess'[s].pc # "loop" /\ BadLength(r.idx))
               => /\ sess'[s].pc = "classify"
                  /\ sess'[s].idx = r.idx
            /\ (r.pc = "classify" /\ BadLength(r.idx) /\ sess'[s].pc # "classify")
               => IF fs[r.outpath].exists
                  THEN /\ JustSkipped(sess'[s], r.idx)
                       /\ fs' = fs
                  ELSE sess'[s].pc = "remove"

\* C21: a malformed, missing, zero or negative declared length never aborts
\* the session: the declared size counts as unknown, and the entry is
\* processed like any other: skipped when its file exists, transferred when
\* it is absent; a clean session has processed every entry of the feed.
C21_BadLengthIsUnknown ==
    /\ [][BadLengthProcessed]_vars
    /\ []BadLengthIsUnknown
    /\ []OthersProcessed

\* a clean session has skipped an entry that declares a negative length over
\* its 0-byte file, and then transferred an entry that declares "2000000B"
C21_Witness ==
    \E s \in Sessions :
        /\ EndedClean(sess[s])
        /\ Len(feed) = 2
        /\ feed[1].enclosures[1].length.txt = <<45, 50, 48, 48, 48, 48, 48, 48>>
        /\ feed[2].enclosures[1].length.txt = <<50, 48, 48, 48, 48, 48, 48, 66>>
        /\ sess[s].log = << <<"already_have", 1>>, <<"ok", 2>> >>
        /\ fs[PathOf(1)] = File(0, FALSE)
        /\ fs[PathOf(2)] = File(Served(UrlOf(2)), FALSE)

\* the HEAD probe of the session gave no size: it raised, answered with an
\* error status or carried no Content-Length
NoTotal(r) == Transferring(r) /\ r.total_bytes = 0

\* the step after the HEAD probe enters download_one_file, whatever the probe
\* gave, with total 0 unless the probe gave a size
ProbeStartsTransfer ==
    \A s \in Sessions :
        (sess[s].pc = "head" /\ sess'[s].pc # "head")
        => /\ sess'[s].pc = "get"
           /\ sess'[s].attempt = 1
           /\ sess'[s].total_bytes \in {0, HeadTotal(sess[s].mp3_url, "len")}

\* without a total, every chunk read while the session is not cancelled is
\* reported to update_progress with the bytes written so far
EveryChunkReported ==
    \A s \in Sessions :
        (NoTotal(sess[s]) /\ ProgressCall(s))
        => sess'[s].reported = sess'[s].downloaded

\* without a total, no call of update_progress carries less than the call
\* before it
NoTotalNonDecreasing ==
    \A s \in Sessions :
        (NoTotal(sess[s]) /\ ProgressCall(s) /\ sess[s].reported >= 0)
        => sess'[s].reported >= sess[s].reported

\* C22: a failed or size-less HEAD probe never stops the download: the total
\* is taken as 0, the transfer is still started, and update_progress is still
\* called for every chunk, with a byte count that never decreases.
C22_ProbeFailureHarmless ==
    /\ [][ProbeStartsTransfer]_vars
    /\ [][EveryChunkReported]_vars
    /\ [][NoTotalNonDecreasing]_vars

\* no transfer issues more than MAX_RETRIES GETs, so a cancelled session sees
\* at most MAX_RETRIES further attempts of its current episode
AttemptsBounded ==
    \A s \in Sessions : sess[s].gets <= MAX_RETRIES

\* C23: every sync session terminates: a session that has its progress window
\* eventually leaves the episode loop and destroys the window; in particular
\* a cancelled session eventually ends, after at most MAX_RETRIES further
\* attempts of the current episode.
C23_SessionTerminates ==
    /\ \A s \in Sessions :
          HasWindow(sess[s]) ~> (sess[s].pc = "done" /\ ~sess[s].grab)
    /\ \A s \in Sessions :
          (HasWindow(sess[s]) /\ sess[s].cancelled)
          ~> (sess[s].pc = "done" /\ ~sess[s].grab)
    /\ []AttemptsBounded

\* the steps of download_one_file between two attempts in a cancelled
\* session: the end of the backoff sleep starts the next attempt while one is
\* left, and the attempt issues its GET and, when the file opens, truncates
\* it; the flag is acted on only at a chunk, and then no chunk is written:
\* the file is closed, which writes out what the file object holds of the
\* chunks before, and no other file changes
CancelUnreadBetweenAttempts ==
    \A s \in Sessions :
        LET r == sess[s]
        IN  r.cancelled =>
            /\ (r.pc = "sleep" /\ sess'[s].pc # "sleep")
               => IF r.attempt < MAX_RETRIES
                  THEN /\ sess'[s].pc = "get"
                       /\ sess'[s].attempt = r.attempt + 1
                  ELSE /\ sess'[s].pc = "ret"
                       /\ sess'[s].why = "exhausted"
            /\ (r.pc = "get" /\ sess'[s].pc # "get")
               => /\ sess'[s].gets = r.gets + 1
                  /\ sess'[s].pc \in {"stream", "sleep"}
                  /\ sess'[s].pc = "stream" => fs'[r.outpath] = File(0, TRUE)
            /\ (r.pc = "stream" /\ sess'[s].why = "cancelled")
               => /\ sess'[s].pc = "ret"
                  /\ r.pos < Len(Body(r.mp3_url))
                  /\ sess'[s].downloaded = r.downloaded
                  /\ \A p \in DOMAIN fs :
                         \/ fs'[p] = fs[p]
                         \/ /\ p = r.outpath
                            /\ r.buffered > 0
                            /\ fs'[p] = Written(fs[p], r.downloaded)

\* a transfer that gave up, cancelled or not, made all its attempts and slept
\* after each
ExhaustedRanThrough ==
    \A s \in Sessions :
        (sess[s].pc = "ret" /\ sess[s].why = "exhausted")
        => /\ sess[s].gets = MAX_RETRIES
           /\ Len(sess[s].sleeps) = MAX_RETRIES

\* C24: cancellation is not observed between retry attempts: a cancellation
\* requested during a backoff sleep does not prevent the next attempt, which
\* issues a new GET and truncates the destination before the flag is read at
\* its first chunk; when the later attempts fail before a chunk, the transfer
\* runs through all remaining attempts and backoff delays.
C24_CancelUnreadBetweenAttempts ==
    /\ [][CancelUnreadBetweenAttempts]_vars
    /\ []ExhaustedRanThrough

\* attempt 1 wrote a chunk and failed; the session is cancelled and attempt 3
\* has truncated the file, its first chunk not yet read
C24_Witness ==
    \E s \in Sessions :
        /\ sess[s].cancelled
        /\ sess[s].pc = "stream"
        /\ sess[s].attempt = MAX_RETRIES
        /\ sess[s].pos = 0
        /\ sess[s].reported > 0
        /\ fs[sess[s].outpath] = File(0, TRUE)

\* an attempt that fails (the GET, the open or the response raises) is
\* followed by the sleep of its backoff and by nothing else
FailureThenSleep ==
    \A s \in Sessions :
        LET r == sess[s]
        IN  /\ (r.pc \in {"get", "stream", "write"}
                /\ sess'[s].pc \notin {r.pc, "stream", "write"}
                /\ sess'[s].why = "none")
               => /\ sess'[s].pc = "sleep"
                  /\ sess'[s].attempt = r.attempt
                  /\ sess'[s].sleeps =
                       Append(r.sleeps, INITIAL_BACKOFF * (2 ^ (r.attempt - 1)))
            /\ (sess'[s].pc = "ret" /\ sess'[s].why = "exhausted"
                /\ r.pc # "ret")
               => /\ r.pc = "sleep"
                  /\ r.attempt = MAX_RETRIES
                  /\ Len(r.sleeps) = MAX_RETRIES

\* a transfer that returns False for its failures has slept MAX_RETRIES
\* times: 2 s, 4 s and 8 s
SleptAfterEveryAttempt ==
    \A s \in Sessions :
        (sess[s].pc = "ret" /\ sess[s].why = "exhausted")
        => sess[s].sleeps = <<2, 4, 8>>

\* C25: every failed attempt of download_one_file, the last one included, is
\* followed by a backoff sleep of INITIAL_BACKOFF * 2^(attempt-1) before
\* anything else happens: a permanently failing transfer sleeps MAX_RETRIES
\* times (2 s, 4 s, 8 s) and returns failure only after the sleep that
\* follows the final attempt.
C25_SleepAfterEveryFailure ==
    /\ [][FailureThenSleep]_vars
    /\ []SleptAfterEveryAttempt

\* the last attempt has failed and the session is in the sleep of 8 s that
\* follows it
C25_Witness ==
    \E s \in Sessions :
        /\ sess[s].pc = "sleep"
        /\ sess[s].attempt = MAX_RETRIES
        /\ sess[s].sleeps = <<2, 4, 8>>

\* at the return of True by download_one_file the file exists and holds all
\* the chunks of the final response, and its length is the last byte count
\* given to update_progress
ReturnsFinalResponse ==
    \A s \in Sessions :
        LET r == sess'[s]
        IN  (sess[s].pc = "stream" /\ r.pc = "ret" /\ r.success)
            => /\ fs'[r.outpath].exists
               /\ r.pos = Len(Body(r.mp3_url))
               /\ fs'[r.outpath].size = Sum(Body(r.mp3_url))
               /\ fs'[r.outpath].size = r.reported

\* C26: whenever download_one_file returns success, the destination file
\* exists and holds exactly the chunks of the final attempt's response, in
\* arrival order, none missing, repeated or taken from an earlier attempt;
\* its length equals the last bytesTransferred value reported to the
\* observer.
C26_SuccessfulTransferContent == [][ReturnsFinalResponse]_vars

\* the flag of a window, once set, stays set: also after the window is
\* destroyed and after later sessions have started
FlagMonotonic ==
    \A s \in Sessions : sess[s].cancelled => sess'[s].cancelled

\* a flag is set by the Cancel button of its own window and by nothing else,
\* and the press changes nothing of any other session
FlagSetByOwnButton ==
    \A s \in Sessions :
        (~sess[s].cancelled /\ sess'[s].cancelled)
        => /\ HasWindow(sess[s])
           /\ sess' = [sess EXCEPT ![s].cancelled = TRUE]

\* the step of do_update_tdz that creates the progress window leaves its
\* flag false, whatever the flags of the earlier windows
WindowStartsUncancelled ==
    \A s \in Sessions :
        (~HasWindow(sess[s]) /\ HasWindow(sess'[s]))
        => /\ ~sess'[s].cancelled
           /\ \A t \in Sessions \ {s} : sess'[t].cancelled = sess[t].cancelled

\* C27: the cancel flag is per session and monotonic: within one session
\* DownloadProgress.cancelled only changes from false to true, and each new
\* do_update_tdz session creates a new progress window whose flag starts
\* false, so a session started after a cancelled one is not cancelled by the
\* earlier request.
C27_CancelFlagPerSession ==
    /\ [][FlagMonotonic]_vars
    /\ [][FlagSetByOwnButton]_vars
    /\ [][WindowStartsUncancelled]_vars

\* session 1 was cancelled and has ended; session 2, started after it, has
\* its window, is not cancelled and has completed a transfer
C27_Witness ==
    /\ sess[1].pc = "done"
    /\ sess[1].cancelled
    /\ sess[2].pc = "ret"
    /\ sess[2].success
    /\ ~sess[2].cancelled

====
